---- MODULE Spec2Model ----
(***************************************************************************)
(* Transaction lifecycle, trace-context continuation and instrumentation   *)
(* config store of the tracing core (src/spancontext.go, src/config.go).   *)
(*                                                                         *)
(* Identifiers are modelled byte-group-wise: an 8-byte word is a value of  *)
(* IdVals (0 is the all-zero word), a SpanID is one word, a TraceID is the *)
(* pair <<bytes 0..7, bytes 8..15>>.                                       *)
(***************************************************************************)
EXTENDS Integers, Sequences, FiniteSets, TLC

\* ------------------------------------------------------------------ bounds
MaxTx == 2          \* transaction handles created in one behaviour
MaxThreads == 2     \* goroutines calling methods on the handles
QueueCap == 1       \* capacity of the tracer's events channel
MaxId == 1          \* 8-byte words range over 0..MaxId
MaxCfgUpdates == 1  \* local config updates while a transaction lives
MaxCfgCalls == 4    \* config update calls (local and remote) of the store
MaxDroppedCount == 3 \* count up to which a dropped-span key is added to again
MaxLabels == 1      \* labels set on one context
MaxSpanStarts == 1       \* spans started in one transaction

Tx == 1..MaxTx
TD == 1..MaxTx      \* TransactionData objects: never more than handles
Threads == 1..MaxThreads
IdVals == 0..MaxId

Nil == 0            \* the nil *TransactionData
NoThread == 0       \* an unlocked mutex
NoSpan == 0         \* an empty compressed-span cache

\* ------------------------------------------------------------ identifiers
SpanIDs == IdVals
TraceIDs == IdVals \X IdVals
ZeroSpan == 0
ZeroTrace == <<0, 0>>

SpanIsZero(s) == s = ZeroSpan
TraceIsZero(t) == t = ZeroTrace
\* Validate() == nil: the identifier is not all-zero
SpanValid(s) == ~SpanIsZero(s)
TraceValid(t) == ~TraceIsZero(t)

\* TraceOptions is one byte; bit 0 is the recorded flag
TraceOptionsVals == 0..1
Recorded(o) == o % 2 = 1
WithRecorded(o, r) == IF r THEN (IF Recorded(o) THEN o ELSE o + 1)
                           ELSE (IF Recorded(o) THEN o - 1 ELSE o)

\* TraceState: whether it parses (valid), whether it carries the es vendor
\* key (haveElastic), and the sample rate held by that entry
NoRate == -1
ZeroState == [valid |-> TRUE, haveElastic |-> FALSE, rate |-> NoRate]

ZeroTraceContext ==
    [Trace |-> ZeroTrace, Span |-> ZeroSpan, Options |-> 0, State |-> ZeroState]

\* sample rates, in millionths (roundSampleRate keeps 4 decimals)
NilSampler == -1
SampleRates == {0, 40, 500049, 1000000}
Samplers == {NilSampler} \cup SampleRates

\* NewTraceState(es=s:<rate>)
NewTraceState(rate) == [valid |-> TRUE, haveElastic |-> TRUE, rate |-> rate]

ContinuationStrategies == {"continue", "restart", "restart_external"}

\* --------------------------------------------------------------- variables
VARIABLES
    created,        \* handles returned by StartTransactionOptions
    tdOf,           \* Transaction.TransactionData: TD or Nil
    traceContext,   \* Transaction.traceContext
    parentID,       \* Transaction.parentID
    mu,             \* Transaction.mu: holder or NoThread
    tdata,          \* the TransactionData objects
    allocated,      \* TransactionData objects allocated so far
    pool,           \* Tracer.transactionDataPool: TD -> number of Puts left
    events,         \* Tracer.events channel: sequence of [tx, td]
    stats,          \* Tracer.stats.TransactionsDropped
    breakdown,      \* transactions recorded by breakdownMetrics
    endedSpans,     \* compressed spans evicted and ended
    active,         \* Tracer.Active()
    config,         \* Tracer.instrumentationConfigInternal (the snapshot)
    localMap,       \* instrumentationConfig.local (shared by all snapshots)
    cfgCalls,       \* config update calls begun so far
    upd,            \* the config updater's position and locals
    upd2,           \* a second goroutine calling setLocalInstrumentationConfig
    serial,         \* history: the update functions published so far, applied
                    \* one after another in the order of their publication
    rem,            \* the remote-config updater (the tracer loop)
    startOpts,      \* the arguments each handle was started with
    startCfg,       \* the snapshot each handle was started under
    startDraw,      \* what each start drew: tx.rand words, sampler answers
    pc,             \* each thread's position
    call,           \* each thread's current call: [op, tx]
    ret,            \* each thread's last return value
    handoffs,       \* per handle: times its data was enqueued or recycled
    returned,       \* per handle: an End or Discard call has returned
    spanContext,    \* a span's SpanContext
    lastOp          \* the last call on the SpanContext or the dropped-span map

vars == <<created, tdOf, traceContext, parentID, mu, tdata, allocated, pool,
          events, stats, breakdown, endedSpans, active, config, localMap,
          cfgCalls, upd, upd2, serial, rem, startOpts, startCfg, startDraw,
          pc, call, ret, handoffs, returned, spanContext, lastOp>>

\* what the transaction's, the pool's and the config store's operations
\* leave alone
spanVars == <<spanContext, lastOp>>

txVars == <<created, tdOf, traceContext, parentID, startOpts, startCfg,
           startDraw>>
cfgVars == <<config, localMap, cfgCalls, upd, upd2, serial, rem>>
threadVars == <<pc, call, ret, mu>>


\* ------------------------------------------------- droppedSpanTimingsMap
\* the hard limit of dropped-span entries stored in a transaction
maxDroppedSpanStats == 128

droppedSpanTimingsKey(dst, outcome) == [destination |-> dst, outcome |-> outcome]

\* make(droppedSpanTimingsMap, maxDroppedSpanStats): no entry
EmptyTimings == [k \in {} |-> 0]

\* the zero droppedSpanTiming a missing key reads as
ZeroTiming == [count |-> 0, duration |-> 0]

\* mutant: add without the limit
addUnlimited(m, dst, outcome, count, d) ==
    LET k == droppedSpanTimingsKey(dst, outcome)
        timing == IF k \in DOMAIN m THEN m[k] ELSE ZeroTiming
    IN [x \in DOMAIN m \cup {k} |->
           IF x = k THEN [count |-> timing.count + count,
                          duration |-> timing.duration + d]
           ELSE m[x]]

\* droppedSpanTimingsMap.add: count and duration are added to the entry of
\* the key if the key is present or the map has room for it
add(m, dst, outcome, count, d) ==
    LET k == droppedSpanTimingsKey(dst, outcome)
        ok == k \in DOMAIN m
        timing == IF ok THEN m[k] ELSE ZeroTiming
    IN IF ok \/ maxDroppedSpanStats > Cardinality(DOMAIN m)
       THEN [x \in DOMAIN m \cup {k} |->
                IF x = k THEN [count |-> timing.count + count,
                               duration |-> timing.duration + d]
                ELSE m[x]]
       ELSE m

\* ------------------------------------------------------- TransactionData
\* Context.reset(): nothing captured, no config copied
ZeroContext == [captureHeaders |-> FALSE, httpStatus |-> 0, labels |-> <<>>]

\* the TransactionData literal of StartTransactionOptions and of reset:
\* Duration -1, every other field zero, maps empty
ZeroTD ==
    [Name |-> "", Type |-> "", Duration |-> -1, Outcome |-> "",
     Context |-> ZeroContext,
     recording |-> FALSE, maxSpans |-> 0, propagateLegacyHeader |-> FALSE,
     timestamp |-> 0,
     links |-> <<>>, errorCaptured |-> FALSE,
     compressedSpan |-> [cache |-> NoSpan, enabled |-> FALSE],
     Result |-> "", spansCreated |-> 0, spansDropped |-> 0,
     spanTimings |-> {},
     droppedSpansStats |-> EmptyTimings]

\* ---------------------------------------------------------------- config
ConfigKeys == {"recording", "continuationStrategy", "sampler"}

\* the snapshot the tracer is constructed with
InitialValues(rec, strategy, sampler) ==
    [recording |-> rec, continuationStrategy |-> strategy, sampler |-> sampler,
     maxSpans |-> 500, propagateLegacyHeader |-> TRUE,
     compressionEnabled |-> TRUE, captureHeaders |-> TRUE]

\* mutant: the recording flag is read from the local map, not the snapshot
instrumentationConfigUnpublished ==
    [config EXCEPT !.values.recording = localMap["recording"]]

\* instrumentationConfig(): the atomic load of the snapshot pointer
instrumentationConfig == config

\* -------------------------------------------------------- the inputs
InboundStates ==
    [valid : BOOLEAN, haveElastic : BOOLEAN, rate : {NoRate}]

\* TransactionOptions: TraceContext, TransactionID, Start (0 = zero time), Links
MkOpts(trace, span, options, state, id, start, links) ==
    [TraceContext |-> [Trace |-> trace, Span |-> span, Options |-> options,
                       State |-> state],
     TransactionID |-> id, Start |-> start, Links |-> links]

ZeroOpts == MkOpts(ZeroTrace, ZeroSpan, 0, ZeroState, ZeroSpan, 0, <<>>)

\* time.Now(): a non-zero instant
Now == 1

\* ------------------------------------------------------------------ pool
\* mutant: Get hands out a pooled object without taking it from the pool
PoolGetKeeps(d) ==
    \/ /\ pool[d] > 0
       /\ UNCHANGED <<pool, allocated>>
    \/ /\ TD \ allocated # {}
       /\ d = CHOOSE x \in TD \ allocated : \A e \in TD \ allocated : x <= e
       /\ allocated' = allocated \cup {d}
       /\ pool' = pool

\* transactionDataPool.Get(): a pooled object, or nil (then a fresh
\* allocation: the lowest object not yet allocated)
FreshTD == CHOOSE d \in TD \ allocated : \A e \in TD \ allocated : d <= e
PoolGet(d) ==
    \/ /\ pool[d] > 0
       /\ pool' = [pool EXCEPT ![d] = @ - 1]
       /\ allocated' = allocated
    \/ /\ TD \ allocated # {}
       /\ d = FreshTD
       /\ allocated' = allocated \cup {d}
       /\ pool' = pool

\* transactionDataPool.Put(td)
PoolPut(p, d) == [p EXCEPT ![d] = @ + 1]

\* mutant: reset leaves the name of the previous transaction
resetDataKeepsName(data) == [ZeroTD EXCEPT !.Name = data.Name]

\* Context.reset, spanTimingsMap.reset: nothing is left
ContextReset(ctx) == ZeroContext
spanTimingsReset(m) == {}

\* droppedSpanTimingsMap.reset: every key is deleted
droppedSpanTimingsReset(m) == [k \in DOMAIN m \ DOMAIN m |-> m[k]]

\* mutant: reset keeps the dropped-span map without emptying it
resetDataKeepsDropped(data) ==
    [ZeroTD EXCEPT !.droppedSpansStats = data.droppedSpansStats]

\* TransactionData.reset(tracer): the zero value with Duration -1, keeping
\* the context and the two maps, which are then emptied; then into the pool
resetData(data) ==
    LET kept == [ZeroTD EXCEPT !.Context = data.Context,
                               !.spanTimings = data.spanTimings,
                               !.droppedSpansStats = data.droppedSpansStats]
    IN [kept EXCEPT !.Context = ContextReset(@),
                    !.spanTimings = spanTimingsReset(@),
                    !.droppedSpansStats = droppedSpanTimingsReset(@)]
reset(d) ==
    /\ tdata' = [tdata EXCEPT ![d] = resetData(tdata[d])]
    /\ pool' = PoolPut(pool, d)

\* -------------------------------------------- StartTransactionOptions
\* mutant: restart_external restarts whatever the inbound vendor state
EffectiveStrategyNoTrust(strategy, opts) ==
    IF strategy = "restart_external" THEN "restart" ELSE strategy

\* the continuation strategy in effect for an inbound context
EffectiveStrategy(strategy, opts) ==
    IF strategy = "restart_external"
    THEN (IF opts.TraceContext.State.haveElastic THEN "continue" ELSE "restart")
    ELSE strategy

\* mutant: the inbound context is restarted whatever the strategy
ShouldRestartTraceAlways(strategy, opts) ==
    /\ ~TraceIsZero(opts.TraceContext.Trace)
    /\ ~SpanIsZero(opts.TraceContext.Span)

\* shouldRestartTrace: restart with a non-zero inbound trace and span
ShouldRestartTrace(strategy, opts) ==
    /\ EffectiveStrategy(strategy, opts) = "restart"
    /\ ~TraceIsZero(opts.TraceContext.Trace)
    /\ ~SpanIsZero(opts.TraceContext.Span)

\* mutant: the inbound trace ID is continued without being validated
ContinuesUnvalidated(strategy, opts) == ~ShouldRestartTrace(strategy, opts)

\* the inbound trace is continued (the transaction is not a root)
Continues(strategy, opts) ==
    /\ TraceValid(opts.TraceContext.Trace)
    /\ ~ShouldRestartTrace(strategy, opts)

\* roundSampleRate: 4 decimals, never rounding a positive rate down to 0;
\* rates are held in millionths
roundSampleRate(r) ==
    IF r > 0 /\ r < 100 THEN 100 ELSE ((r + 50) \div 100) * 100

\* mutant: no link is recorded for a restarted inbound context
StartLinksNoInbound(strategy, opts) == opts.Links

\* the link list built at start: the restarted inbound context, then opts.Links
StartLinks(strategy, opts) ==
    (IF ShouldRestartTrace(strategy, opts)
     THEN <<<<opts.TraceContext.Trace, opts.TraceContext.Span>>>>
     ELSE <<>>) \o opts.Links

\* result.Sampled: the sampler's answer, true without a sampler
ResultSampled(cfg, sampled) ==
    IF cfg.sampler # NilSampler THEN sampled ELSE TRUE

\* mutant: an unsampled result keeps the sampler's rate
ResultSampleRateKept(cfg, sampled) == cfg.sampler

\* result.SampleRate: the sampler's rate, forced to 0 when not sampled
ResultSampleRate(cfg, sampled) == IF sampled THEN cfg.sampler ELSE 0

\* mutant: a continued transaction is sampled again
ContinuedOptionsSampled(cfg, opts, sampled) ==
    WithRecorded(opts.TraceContext.Options, ResultSampled(cfg, sampled))

\* the flags of a continued transaction: the inbound ones
ContinuedOptions(cfg, opts, sampled) == opts.TraceContext.Options

\* mutant: a root starts from the flags of the inbound context
RootOptionsInbound(cfg, opts, sampled) ==
    IF ResultSampled(cfg, sampled)
    THEN WithRecorded(opts.TraceContext.Options, TRUE)
    ELSE opts.TraceContext.Options

\* the flags of a root: recorded when sampled, nothing else
RootOptions(cfg, opts, sampled) ==
    IF ResultSampled(cfg, sampled) THEN WithRecorded(0, TRUE) ELSE 0

\* mutant: a continued transaction without a caller-supplied ID takes the
\* inbound span ID as its own
StartTraceContextInboundSpan(cfg, opts, rnd, sampled) ==
    IF Continues(cfg.continuationStrategy, opts)
    THEN [Trace |-> opts.TraceContext.Trace,
          Span |-> IF SpanValid(opts.TransactionID)
                   THEN opts.TransactionID ELSE opts.TraceContext.Span,
          Options |-> ContinuedOptions(cfg, opts, sampled),
          State |-> IF opts.TraceContext.State.valid
                    THEN opts.TraceContext.State ELSE ZeroState]
    ELSE LET trace == <<rnd[1], rnd[2]>>
         IN [Trace |-> trace,
             Span |-> IF SpanValid(opts.TransactionID)
                      THEN opts.TransactionID ELSE trace[1],
             Options |-> RootOptions(cfg, opts, sampled),
             State |-> IF cfg.sampler # NilSampler
                       THEN NewTraceState(roundSampleRate(
                                ResultSampleRate(cfg, sampled)))
                       ELSE ZeroState]

\* the trace context stamped on the transaction; rnd = the words drawn
\* from tx.rand, sampled = what the sampler answers
StartTraceContext(cfg, opts, rnd, sampled) ==
    IF Continues(cfg.continuationStrategy, opts)
    THEN [Trace |-> opts.TraceContext.Trace,
          Span |-> IF SpanValid(opts.TransactionID)
                   THEN opts.TransactionID ELSE rnd[1],
          Options |-> ContinuedOptions(cfg, opts, sampled),
          State |-> IF opts.TraceContext.State.valid
                    THEN opts.TraceContext.State ELSE ZeroState]
    ELSE LET trace == <<rnd[1], rnd[2]>>
         IN [Trace |-> trace,
             Span |-> IF SpanValid(opts.TransactionID)
                      THEN opts.TransactionID ELSE trace[1],
             Options |-> RootOptions(cfg, opts, sampled),
             State |-> IF cfg.sampler # NilSampler
                       THEN NewTraceState(roundSampleRate(
                                ResultSampleRate(cfg, sampled)))
                       ELSE ZeroState]

StartParentID(cfg, opts) ==
    IF Continues(cfg.continuationStrategy, opts)
       /\ SpanValid(opts.TraceContext.Span)
    THEN opts.TraceContext.Span ELSE ZeroSpan

\* the TransactionData fields stamped from the snapshot and the arguments
StartData(data, cfg, name, transactionType, opts) ==
    [data EXCEPT
        !.recording = cfg.recording,
        !.maxSpans = cfg.maxSpans,
        !.compressedSpan.enabled = cfg.compressionEnabled,
        !.Context.captureHeaders = cfg.captureHeaders,
        !.propagateLegacyHeader = cfg.propagateLegacyHeader,
        !.links = data.links \o StartLinks(cfg.continuationStrategy, opts),
        !.Name = name,
        !.Type = transactionType,
        !.timestamp = IF opts.Start = 0 THEN Now ELSE opts.Start]

\* a placeholder: only tx.recording is copied before the early return
PlaceholderData(data, cfg) == [data EXCEPT !.recording = cfg.recording]

IsPlaceholder(cfg) == ~cfg.recording \/ ~active

\* the words StartTransactionOptions takes from tx.rand: two for the trace
\* ID of a root, one for the span ID of a continued trace when the caller
\* supplied no transaction ID
RandWords(cfg, opts, rnd) ==
    IF IsPlaceholder(cfg) THEN <<>>
    ELSE IF ~Continues(cfg.continuationStrategy, opts) THEN <<rnd[1], rnd[2]>>
    ELSE IF SpanValid(opts.TransactionID) THEN <<>> ELSE <<rnd[1]>>

\* the answers StartTransactionOptions gets from sampler.Sample: one, for a
\* root transaction under a snapshot with a sampler
SamplerAnswers(cfg, opts, sampled) ==
    IF /\ ~IsPlaceholder(cfg)
       /\ ~Continues(cfg.continuationStrategy, opts)
       /\ cfg.sampler # NilSampler
    THEN <<sampled>> ELSE <<>>

NoDraw == [words |-> <<>>, answers |-> <<>>]

StartTransactionOptions(tx, name, transactionType, opts, rnd, sampled) ==
    /\ tx \notin created
    /\ \A u \in Tx : u < tx => u \in created
    /\ \E d \in TD :
        /\ PoolGet(d)
        /\ LET cfg == instrumentationConfig.values IN
           /\ tdOf' = [tdOf EXCEPT ![tx] = d]
           /\ IF IsPlaceholder(cfg)
              THEN /\ tdata' = [tdata EXCEPT ![d] = PlaceholderData(@, cfg)]
                   /\ traceContext' = [traceContext EXCEPT ![tx] = ZeroTraceContext]
                   /\ parentID' = [parentID EXCEPT ![tx] = ZeroSpan]
              ELSE /\ tdata' = [tdata EXCEPT ![d] =
                          StartData(@, cfg, name, transactionType, opts)]
                   /\ traceContext' = [traceContext EXCEPT ![tx] =
                          StartTraceContext(cfg, opts, rnd, sampled)]
                   /\ parentID' = [parentID EXCEPT ![tx] = StartParentID(cfg, opts)]
    /\ created' = created \cup {tx}
    /\ startOpts' = [startOpts EXCEPT ![tx] = opts]
    /\ startCfg' = [startCfg EXCEPT ![tx] = config]
    /\ startDraw' = [startDraw EXCEPT ![tx] =
           [words |-> RandWords(instrumentationConfig.values, opts, rnd),
            answers |-> SamplerAnswers(instrumentationConfig.values, opts,
                                       sampled)]]
    /\ UNCHANGED <<events, stats, breakdown, endedSpans, active, spanVars, cfgVars,
                   threadVars, handoffs, returned>>


\* ------------------------------------------------------ the events channel
TransactionEvent(tx, d) == [eventType |-> "transaction", tx |-> tx, td |-> d]
SpanEvent(s) == [eventType |-> "span", tx |-> s, td |-> Nil]

\* the non-blocking send: the channel has room
HasRoom(q) == Len(q) < QueueCap

\* Span.end() of an evicted span: the span is ended and sent the same
\* non-blocking way (a full channel drops it)
EndSpan(q, s) == IF s # NoSpan /\ HasRoom(q) THEN Append(q, SpanEvent(s)) ELSE q

\* compressedSpan.evict(): the cached span, leaving the cache empty
evict(data) == [data EXCEPT !.compressedSpan.cache = NoSpan]

\* ------------------------------------------------------ the handle's methods
Ops == {"End", "Discard", "EnsureParent", "ShouldPropagateLegacyHeader"}
NoCall == [op |-> "none", tx |-> 0]
\* return values: none yet, a SpanID, a bool
NoRet == [kind |-> "none", id |-> 0, flag |-> FALSE]
RetID(s) == [kind |-> "id", id |-> s, flag |-> FALSE]
RetBool(b) == [kind |-> "bool", id |-> 0, flag |-> b]

\* mutant: the methods do not take tx.mu
CanLockAlways(tx) == TRUE

\* tx.mu.Lock() can be taken
CanLock(tx) == mu[tx] = NoThread

\* ended(): End or Discard has been called
ended(tx) == tdOf[tx] = Nil

\* what a call returns when the transaction has ended
EndedResult(op) ==
    CASE op = "EnsureParent" -> RetID(ZeroSpan)
      [] op = "ShouldPropagateLegacyHeader" -> RetBool(FALSE)
      [] OTHER -> NoRet

\* a call begins: the goroutine takes tx.mu and tests tx.ended(), returning
\* at once (through the deferred Unlock) if the transaction has ended
Lock(th, op, tx) ==
    /\ pc[th] = "idle"
    /\ tx \in created
    /\ CanLock(tx)
    /\ mu' = [mu EXCEPT ![tx] = th]
    /\ call' = [call EXCEPT ![th] = [op |-> op, tx |-> tx]]
    /\ IF ended(tx)
       THEN /\ ret' = [ret EXCEPT ![th] = EndedResult(op)]
            /\ pc' = [pc EXCEPT ![th] = "unlock"]
       ELSE /\ ret' = [ret EXCEPT ![th] = NoRet]
            /\ pc' = [pc EXCEPT ![th] = "body"]
    /\ UNCHANGED <<txVars, tdata, allocated, pool, events, stats, breakdown,
                   endedSpans, active, spanVars, cfgVars, handoffs, returned>>

\* mutant: the first half of the trace ID (the transaction's own ID) is reused
EnsuredParentFirstHalf(tx) ==
    IF SpanIsZero(parentID[tx]) THEN traceContext[tx].Trace[1] ELSE parentID[tx]

\* the parent ID EnsureParent leaves: the latter half of the trace ID when
\* none is set
EnsuredParent(tx) ==
    IF SpanIsZero(parentID[tx]) THEN traceContext[tx].Trace[2] ELSE parentID[tx]

\* mutant: the generated ID is written over the transaction's own span ID
EnsureParentIntoSpan(th) ==
    /\ pc[th] = "body"
    /\ call[th].op = "EnsureParent"
    /\ tdOf[call[th].tx] # Nil
    /\ traceContext' = [traceContext EXCEPT ![call[th].tx].Span =
                            traceContext[call[th].tx].Trace[2]]
    /\ ret' = [ret EXCEPT ![th] = RetID(traceContext[call[th].tx].Trace[2])]
    /\ pc' = [pc EXCEPT ![th] = "unlock"]
    /\ UNCHANGED <<created, tdOf, parentID, startOpts, startCfg, startDraw,
                   mu, call, tdata, allocated, pool, events, stats, breakdown,
                   endedSpans, active, spanVars, cfgVars, handoffs, returned>>

EnsureParent(th) ==
    /\ pc[th] = "body"
    /\ call[th].op = "EnsureParent"
    /\ tdOf[call[th].tx] # Nil
    /\ parentID' = [parentID EXCEPT ![call[th].tx] = EnsuredParent(call[th].tx)]
    /\ ret' = [ret EXCEPT ![th] = RetID(EnsuredParent(call[th].tx))]
    /\ pc' = [pc EXCEPT ![th] = "unlock"]
    /\ UNCHANGED <<created, tdOf, traceContext, startOpts, startCfg,
                   startDraw, mu, call, tdata, allocated, pool, events, stats,
                   breakdown, endedSpans, active, spanVars, cfgVars, handoffs, returned>>

ShouldPropagateLegacyHeader(th) ==
    /\ pc[th] = "body"
    /\ call[th].op = "ShouldPropagateLegacyHeader"
    /\ tdOf[call[th].tx] # Nil
    /\ ret' = [ret EXCEPT ![th] =
                  RetBool(tdata[tdOf[call[th].tx]].propagateLegacyHeader)]
    /\ pc' = [pc EXCEPT ![th] = "unlock"]
    /\ UNCHANGED <<txVars, mu, call, tdata, allocated, pool, events, stats,
                   breakdown, endedSpans, active, spanVars, cfgVars, handoffs, returned>>

\* Discard, after the ended check: tx.reset(tx.tracer)
Discard(th) ==
    /\ pc[th] = "body"
    /\ call[th].op = "Discard"
    /\ tdOf[call[th].tx] # Nil
    /\ reset(tdOf[call[th].tx])
    /\ handoffs' = [handoffs EXCEPT ![call[th].tx] = @ + 1]
    /\ pc' = [pc EXCEPT ![th] = "detach"]
    /\ UNCHANGED <<txVars, mu, call, ret, allocated, events, stats, breakdown,
                   endedSpans, active, spanVars, cfgVars, returned>>

\* the outcome derived from the transaction's context ("" if none)
ContextOutcome(ctx) ==
    IF ctx.httpStatus # 0
    THEN (IF ctx.httpStatus < 400 THEN "success" ELSE "failure")
    ELSE ""

\* mutant: a captured error decides before the context is asked
ResolveOutcomeErrorFirst(data) ==
    IF data.Outcome # "" THEN data.Outcome
    ELSE IF data.errorCaptured THEN "failure"
    ELSE IF ContextOutcome(data.Context) # "" THEN ContextOutcome(data.Context)
    ELSE "success"

\* End's Outcome precedence: set by the caller, derived from the context,
\* failure if an error was captured, else success
ResolveOutcome(data) ==
    IF data.Outcome # "" THEN data.Outcome
    ELSE IF ContextOutcome(data.Context) # "" THEN ContextOutcome(data.Context)
    ELSE IF data.errorCaptured THEN "failure" ELSE "success"

\* the fields End fills in before the event is sent
EndData(data, elapsed) ==
    LET typed == [data EXCEPT !.Type = IF @ = "" THEN "custom" ELSE @] IN
    IF data.recording
    THEN evict([typed EXCEPT
                   !.Duration = IF @ < 0 THEN elapsed ELSE @,
                   !.Outcome = ResolveOutcome(data)])
    ELSE typed

\* mutant: a blocking send (no default branch in the select)
enqueueBlocking(tx, d, data, q) ==
    /\ HasRoom(q)
    /\ events' = Append(q, TransactionEvent(tx, d))
    /\ tdata' = [tdata EXCEPT ![d] = data]
    /\ UNCHANGED <<pool, stats, breakdown>>

\* tx.enqueue(): a non-blocking send of the transaction event; a full channel
\* records the breakdown timing, counts the drop and recycles the data
enqueue(tx, d, data, q) ==
    IF HasRoom(q)
    THEN /\ events' = Append(q, TransactionEvent(tx, d))
         /\ tdata' = [tdata EXCEPT ![d] = data]
         /\ UNCHANGED <<pool, stats, breakdown>>
    ELSE /\ events' = q
         /\ breakdown' = breakdown + 1
         /\ stats' = stats + 1
         /\ tdata' = [tdata EXCEPT ![d] = resetData(data)]
         /\ pool' = PoolPut(pool, d)

\* whether End sends the transaction (or only recycles its data)
EndSends(data) == data.recording

\* End, after the ended check
End(th, elapsed) ==
    /\ pc[th] = "body"
    /\ call[th].op = "End"
    /\ tdOf[call[th].tx] # Nil
    /\ LET tx == call[th].tx
           d == tdOf[tx]
           data == EndData(tdata[d], elapsed)
           s == tdata[d].compressedSpan.cache
       IN IF EndSends(tdata[d])
          THEN /\ endedSpans' = IF s # NoSpan THEN endedSpans \cup {s}
                                ELSE endedSpans
               /\ enqueue(tx, d, data, EndSpan(events, s))
          ELSE /\ tdata' = [tdata EXCEPT ![d] = resetData(data)]
               /\ pool' = PoolPut(pool, d)
               /\ UNCHANGED <<events, stats, breakdown, endedSpans>>
    /\ handoffs' = [handoffs EXCEPT ![call[th].tx] = @ + 1]
    /\ pc' = [pc EXCEPT ![th] = "detach"]
    /\ UNCHANGED <<txVars, mu, call, ret, allocated, active, spanVars, cfgVars, returned>>

\* mutant: End and Discard forget to clear tx.TransactionData
DetachedKept(d) == d

\* the field End and Discard leave in tx.TransactionData
Detached(d) == Nil

\* tx.TransactionData = nil
Detach(th) ==
    /\ pc[th] = "detach"
    /\ tdOf' = [tdOf EXCEPT ![call[th].tx] = Detached(@)]
    /\ pc' = [pc EXCEPT ![th] = "unlock"]
    /\ UNCHANGED <<created, traceContext, parentID, startOpts, startCfg,
                   startDraw, mu, call, ret, tdata, allocated, pool, events,
                   stats, breakdown, endedSpans, active, spanVars, cfgVars, handoffs,
                   returned>>

\* the deferred tx.mu.Unlock(); the call returns
Unlock(th) ==
    /\ pc[th] = "unlock"
    /\ mu' = [mu EXCEPT ![call[th].tx] = NoThread]
    /\ returned' = [returned EXCEPT ![call[th].tx] =
                       @ \/ call[th].op \in {"End", "Discard"}]
    /\ pc' = [pc EXCEPT ![th] = "idle"]
    /\ call' = [call EXCEPT ![th] = NoCall]
    /\ ret' = [ret EXCEPT ![th] = NoRet]
    /\ UNCHANGED <<txVars, tdata, allocated, pool, events, stats, breakdown,
                   endedSpans, active, spanVars, cfgVars, handoffs>>


\* ---------------------------------------------------- spans and the sender
\* a finished span of tx is kept in the transaction's compressed-span cache
\* (span end takes tx.mu for reading and the TransactionData lock)
CacheSpan(tx) ==
    /\ tx \in created
    /\ mu[tx] = NoThread
    /\ tdOf[tx] # Nil
    /\ tdata[tdOf[tx]].recording
    /\ tdata[tdOf[tx]].compressedSpan.enabled
    /\ tdata[tdOf[tx]].compressedSpan.cache = NoSpan
    /\ tdata' = [tdata EXCEPT ![tdOf[tx]].compressedSpan.cache = tx]
    /\ UNCHANGED <<txVars, threadVars, allocated, pool, events, stats,
                   breakdown, endedSpans, active, spanVars, cfgVars, handoffs, returned>>

\* the sender takes the next event off the channel; a transaction's data is
\* reset and returned to the pool once it has been written out
SenderReceive ==
    /\ events # <<>>
    /\ events' = Tail(events)
    /\ IF Head(events).eventType = "transaction"
       THEN reset(Head(events).td)
       ELSE UNCHANGED <<tdata, pool>>
    /\ UNCHANGED <<txVars, threadVars, allocated, stats, breakdown, endedSpans,
                   active, spanVars, cfgVars, handoffs, returned>>

\* ------------------------------------------------------- the config store
Snapshot(id, values, remote) == [id |-> id, values |-> values, remote |-> remote]

IdleUpdater == [pc |-> "idle", key |-> "", val |-> 0, old |-> 0, new |-> 0]

\* mutant: the closure is applied to the copy even when the key is remotely
\* overridden
ApplyLocalAlways(cfg, key, val) ==
    [cfg.values EXCEPT ![key] = val]

\* the update function of setLocalInstrumentationConfig applied to the copy:
\* the closure is applied unless the key is remotely overridden
ApplyLocal(cfg, key, val) ==
    IF key \in cfg.remote THEN cfg.values
    ELSE [cfg.values EXCEPT ![key] = val]

\* the snapshots that are referenced: the published one, those loaded and
\* built by the updaters, those transactions were started under
LiveIds ==
    {config.id}
      \cup (IF upd.pc = "cas" THEN {upd.old, upd.new.id} ELSE {})
      \cup (IF upd2.pc = "cas" THEN {upd2.old, upd2.new.id} ELSE {})
      \cup (IF rem.pc = "cas" THEN {rem.loaded, rem.new.id} ELSE {})
      \cup {startCfg[t].id : t \in created}

\* newConfig: the address of a fresh copy, which no reference holds
NewId == CHOOSE n \in 0..Cardinality(LiveIds) :
             /\ n \notin LiveIds
             /\ \A m \in 0..Cardinality(LiveIds) : m \notin LiveIds => n <= m

\* one round of updateInstrumentationConfig for a local update, up to the
\* compare-and-swap: load the snapshot, copy it, store the closure in the
\* (shared) local map, apply it to the copy
LocalRound(key, val) ==
    /\ localMap' = [localMap EXCEPT ![key] = val]
    /\ upd' = [pc |-> "cas", key |-> key, val |-> val,
               old |-> instrumentationConfig.id,
               new |-> Snapshot(NewId, ApplyLocal(instrumentationConfig, key, val),
                                instrumentationConfig.remote)]

\* setLocalInstrumentationConfig is called: the first round
setLocalInstrumentationConfig(key, val) ==
    /\ upd.pc = "idle"
    /\ LocalRound(key, val)
    /\ cfgCalls' = cfgCalls + 1
    /\ UNCHANGED <<config, upd2, serial, rem, txVars, threadVars, tdata,
                   allocated, pool, events, stats, breakdown, endedSpans,
                   active, spanVars, handoffs, returned>>

\* mutant: the copy is stored without comparing the pointer
CompareAndSwapBlind ==
    /\ upd.pc = "cas"
    /\ config' = upd.new
    /\ upd' = IdleUpdater
    /\ serial' = [values |-> ApplyLocal(serial, upd.key, upd.val),
                  remote |-> serial.remote,
                  local |-> [serial.local EXCEPT ![upd.key] = upd.val],
                  applied |-> serial.applied + 1]
    /\ UNCHANGED <<localMap, cfgCalls, upd2, rem, txVars, threadVars, tdata,
                   allocated, pool, events, stats, breakdown, endedSpans,
                   active, spanVars, handoffs, returned>>

\* updateInstrumentationConfig's compare-and-swap: publish the copy if the
\* pointer still holds the snapshot that was loaded, else go round again;
\* the history applies the update function of a published copy
CompareAndSwap ==
    /\ upd.pc = "cas"
    /\ IF config.id = upd.old
       THEN /\ config' = upd.new
            /\ upd' = IdleUpdater
            /\ serial' = [values |-> ApplyLocal(serial, upd.key, upd.val),
                          remote |-> serial.remote,
                          local |-> [serial.local EXCEPT ![upd.key] = upd.val],
                          applied |-> serial.applied + 1]
            /\ UNCHANGED localMap
       ELSE /\ config' = config
            /\ LocalRound(upd.key, upd.val)
            /\ UNCHANGED serial
    /\ UNCHANGED <<cfgCalls, upd2, rem, txVars, threadVars, tdata, allocated,
                   pool, events, stats, breakdown, endedSpans, active,
                   spanVars, handoffs, returned>>

\* a second goroutine calls setLocalInstrumentationConfig while the first
\* is in the loop: its first round, on the same pointer and the same local
\* map
setLocalInstrumentationConfigSecond(key, val) ==
    /\ upd2.pc = "idle"
    /\ localMap' = [localMap EXCEPT ![key] = val]
    /\ upd2' = [pc |-> "cas", key |-> key, val |-> val,
                old |-> instrumentationConfig.id,
                new |-> Snapshot(NewId,
                                 ApplyLocal(instrumentationConfig, key, val),
                                 instrumentationConfig.remote)]
    /\ cfgCalls' = cfgCalls + 1
    /\ UNCHANGED <<config, upd, serial, rem, txVars, threadVars, tdata,
                   allocated, pool, events, stats, breakdown, endedSpans,
                   active, spanVars, handoffs, returned>>

\* the compare-and-swap of the second goroutine
CompareAndSwapSecond ==
    /\ upd2.pc = "cas"
    /\ IF config.id = upd2.old
       THEN /\ config' = upd2.new
            /\ upd2' = IdleUpdater
            /\ serial' = [values |-> ApplyLocal(serial, upd2.key, upd2.val),
                          remote |-> serial.remote,
                          local |-> [serial.local EXCEPT ![upd2.key] = upd2.val],
                          applied |-> serial.applied + 1]
            /\ UNCHANGED localMap
       ELSE /\ config' = config
            /\ localMap' = [localMap EXCEPT ![upd2.key] = upd2.val]
            /\ upd2' = [upd2 EXCEPT
                          !.old = instrumentationConfig.id,
                          !.new = Snapshot(NewId,
                                           ApplyLocal(instrumentationConfig,
                                                      upd2.key, upd2.val),
                                           instrumentationConfig.remote)]
            /\ UNCHANGED serial
    /\ UNCHANGED <<cfgCalls, upd, rem, txVars, threadVars, tdata, allocated,
                   pool, events, stats, breakdown, endedSpans, active,
                   spanVars, handoffs, returned>>

\* ------------------------------------------------------ remote config
\* the attributes of central config that are modelled, and one that the
\* agent does not support
AttrKeys == {"recording", "trace_continuation_strategy", "unknown_option"}

\* envName(k): the environment-variable name of an attribute, which is the
\* key of the local map and of the remote set (named here by the field it
\* configures)
envName(k) ==
    CASE k = "recording" -> "recording"
      [] k = "trace_continuation_strategy" -> "continuationStrategy"
      [] k = "transaction_sample_rate" -> "sampler"
      [] OTHER -> k

\* strconv.ParseBool
ParseBool(v) ==
    IF v \in {"1", "t", "T", "TRUE", "true", "True"}
    THEN [ok |-> TRUE, value |-> TRUE]
    ELSE IF v \in {"0", "f", "F", "FALSE", "false", "False"}
    THEN [ok |-> TRUE, value |-> FALSE]
    ELSE [ok |-> FALSE, value |-> FALSE]

\* validateContinuationStrategy
validateContinuationStrategy(v) == v \in ContinuationStrategies

\* the switch of updateRemoteConfig on one attribute: whether its value is
\* accepted, and the value the update closure will set
ParseAttr(k, v) ==
    CASE envName(k) = "recording" -> ParseBool(v)
      [] envName(k) = "continuationStrategy" ->
             [ok |-> validateContinuationStrategy(v), value |-> v]
      [] OTHER -> [ok |-> FALSE, value |-> v]

\* an attribute map without some keys
Restrict(attrs, keys) == [k \in keys |-> attrs[k]]
NoAttrs == Restrict(<<>>, {})

\* mutant: an attribute that was applied before is not looked at again
ChangedNewKeysOnly(old, attrs) == DOMAIN attrs \ DOMAIN old

\* the attributes the first loop looks at: those not already applied with
\* the same value
Changed(old, attrs) ==
    {k \in DOMAIN attrs : ~(k \in DOMAIN old /\ old[k] = attrs[k])}

\* the changed attributes whose value fails to parse, or that are unsupported
Rejected(old, attrs) ==
    {k \in Changed(old, attrs) : ~ParseAttr(k, attrs[k]).ok}

\* mutant: one rejected attribute discards every changed attribute
RemainingAttrsAllOrNothing(old, attrs) ==
    IF Rejected(old, attrs) # {}
    THEN Restrict(attrs, DOMAIN attrs \ Changed(old, attrs))
    ELSE attrs

\* attrs after the first loop: the changed attributes that failed to parse,
\* or are unsupported, have been deleted
RemainingAttrs(old, attrs) ==
    Restrict(attrs, DOMAIN attrs \ Rejected(old, attrs))

\* the attributes the second loop reverts: in old, no longer in attrs
Reverted(old, attrs) == DOMAIN old \ DOMAIN attrs

\* updates != nil
HasUpdates(old, attrs) ==
    \/ Changed(old, attrs) # {}
    \/ Reverted(old, attrs) # {}

\* mutant: the remote set holds the attribute names, not their
\* environment-variable names
RemoteSetRawKeys(attrs) == DOMAIN attrs

\* the remote set built from attrs
RemoteSet(attrs) == {envName(k) : k \in DOMAIN attrs}

\* mutant: the closures are published one at a time; the first publication
\* carries the new remote set and one field only
ApplyRemoteOneField(cfg, local, old, attrs) ==
    LET first == CHOOSE k \in Changed(old, attrs) \cup Reverted(old, attrs) : TRUE
    IN [f \in DOMAIN cfg.values |->
           IF f = envName(first) /\ first \in Changed(old, attrs)
           THEN ParseAttr(first, attrs[first]).value
           ELSE IF f = envName(first) THEN local[f]
           ELSE cfg.values[f]]

\* mutant: a removed attribute keeps the value it had remotely
ApplyRemoteNoRevert(cfg, local, old, attrs) ==
    [f \in DOMAIN cfg.values |->
        IF \E k \in Changed(old, attrs) : envName(k) = f
        THEN ParseAttr(CHOOSE k \in Changed(old, attrs) : envName(k) = f,
                       attrs[CHOOSE k \in Changed(old, attrs) : envName(k) = f]).value
        ELSE cfg.values[f]]

\* the update function of updateRemoteConfig applied to the copy: every
\* update closure sets its parsed value, every revert closure calls the
\* local closure of its key; attrs is the map after the first loop
ApplyRemote(cfg, local, old, attrs) ==
    [f \in DOMAIN cfg.values |->
        IF \E k \in Changed(old, attrs) : envName(k) = f
        THEN ParseAttr(CHOOSE k \in Changed(old, attrs) : envName(k) = f,
                       attrs[CHOOSE k \in Changed(old, attrs) : envName(k) = f]).value
        ELSE IF (\E k \in Reverted(old, attrs) : envName(k) = f)
                /\ f \in DOMAIN local
        THEN local[f]
        ELSE cfg.values[f]]

\* one round of updateInstrumentationConfig for the remote batch, up to the
\* compare-and-swap
RemoteRound(old, given, attrs) ==
    rem' = [pc |-> "cas", old |-> old, given |-> given, attrs |-> attrs,
            loaded |-> instrumentationConfig.id,
            new |-> Snapshot(NewId,
                             ApplyRemote(instrumentationConfig, localMap,
                                         old, attrs),
                             RemoteSet(attrs))]

\* updateRemoteConfig(old, attrs) is called by the tracer loop with the
\* attributes it applied last: the two loops, then the first round, or
\* nothing when there is no update
updateRemoteConfig(given) ==
    /\ rem.pc = "idle"
    /\ LET attrs == RemainingAttrs(rem.old, given) IN
       IF HasUpdates(rem.old, attrs)
       THEN /\ RemoteRound(rem.old, given, attrs)
            /\ UNCHANGED serial
       ELSE /\ rem' = [rem EXCEPT !.pc = "return", !.given = given,
                                  !.attrs = attrs]
            /\ serial' = [serial EXCEPT !.applied = @ + 1]
    /\ cfgCalls' = cfgCalls + 1
    /\ UNCHANGED <<config, localMap, upd, upd2, txVars, threadVars, tdata, allocated,
                   pool, events, stats, breakdown, endedSpans, active, spanVars, handoffs,
                   returned>>

\* mutant: a failed compare-and-swap is repeated with the snapshot loaded
\* in the first round
RemoteCompareAndSwapStale ==
    /\ rem.pc = "cas"
    /\ IF config.id = rem.loaded
       THEN /\ config' = rem.new
            /\ rem' = [rem EXCEPT !.pc = "return", !.loaded = 0, !.new = 0]
            /\ serial' = [values |-> ApplyRemote(serial, serial.local,
                                                 rem.old, rem.attrs),
                          remote |-> RemoteSet(rem.attrs),
                          local |-> serial.local,
                          applied |-> serial.applied + 1]
       ELSE UNCHANGED <<config, rem, serial>>
    /\ UNCHANGED <<localMap, cfgCalls, upd, upd2, txVars, threadVars, tdata,
                   allocated, pool, events, stats, breakdown, endedSpans,
                   active, spanVars, handoffs, returned>>

\* the compare-and-swap of the remote batch: publish, or go round again
RemoteCompareAndSwap ==
    /\ rem.pc = "cas"
    /\ IF config.id = rem.loaded
       THEN /\ config' = rem.new
            /\ rem' = [rem EXCEPT !.pc = "return", !.loaded = 0, !.new = 0]
            /\ serial' = [values |-> ApplyRemote(serial, serial.local,
                                                 rem.old, rem.attrs),
                          remote |-> RemoteSet(rem.attrs),
                          local |-> serial.local,
                          applied |-> serial.applied + 1]
       ELSE /\ config' = config
            /\ RemoteRound(rem.old, rem.given, rem.attrs)
            /\ UNCHANGED serial
    /\ UNCHANGED <<localMap, cfgCalls, upd, upd2, txVars, threadVars, tdata,
                   allocated, pool, events, stats, breakdown, endedSpans,
                   active, spanVars, handoffs, returned>>

IdleRemote == [pc |-> "idle", old |-> NoAttrs, given |-> NoAttrs,
               attrs |-> NoAttrs, loaded |-> 0, new |-> 0]

\* updateRemoteConfig returns; the tracer loop keeps attrs, as the call
\* left it, as the old of the next call
RemoteReturn ==
    /\ rem.pc = "return"
    /\ rem' = [IdleRemote EXCEPT !.old = rem.attrs]
    /\ UNCHANGED <<config, localMap, cfgCalls, upd, upd2, serial, txVars, threadVars, tdata,
                   allocated, pool, events, stats, breakdown, endedSpans,
                   active, spanVars, handoffs, returned>>

\* ------------------------------------------- writes to TransactionData
\* the owner of the transaction writes its data between start and End: no
\* End or Discard is running
Write(tx, data) ==
    /\ tx \in created
    /\ mu[tx] = NoThread
    /\ tdOf[tx] # Nil
    /\ tdata' = [tdata EXCEPT ![tdOf[tx]] = data]
    /\ UNCHANGED <<txVars, threadVars, allocated, pool, events, stats,
                   breakdown, endedSpans, active, spanVars, cfgVars, handoffs,
                   returned>>

\* tx.Outcome = o
SetOutcome(tx, o) == Write(tx, [tdata[tdOf[tx]] EXCEPT !.Outcome = o])

\* tx.Context.SetHTTPStatusCode(statusCode)
ContextSetHTTPStatusCode(tx, statusCode) ==
    Write(tx, [tdata[tdOf[tx]] EXCEPT !.Context.httpStatus = statusCode])

\* an error of the transaction is captured
CaptureError(tx) == Write(tx, [tdata[tdOf[tx]] EXCEPT !.errorCaptured = TRUE])

\* tx.Result = r
SetResult(tx, r) == Write(tx, [tdata[tdOf[tx]] EXCEPT !.Result = r])

\* tx.Context.SetLabel(key, value)
ContextSetLabel(tx, key, value) ==
    Write(tx, [tdata[tdOf[tx]] EXCEPT
                  !.Context.labels = Append(@, [Key |-> key, Value |-> value])])

\* a span of the transaction is started: it is counted as created, or as
\* dropped
StartSpan(tx, dropped) ==
    Write(tx, IF dropped
              THEN [tdata[tdOf[tx]] EXCEPT !.spansDropped = @ + 1]
              ELSE [tdata[tdOf[tx]] EXCEPT !.spansCreated = @ + 1])

\* a span of the transaction has ended: its self-time is added to the
\* breakdown timings under its type
AddSpanTiming(tx, spanType) ==
    Write(tx, [tdata[tdOf[tx]] EXCEPT !.spanTimings = @ \cup {spanType}])

\* ------------------------------------------------------------ SpanContext
\* strings are sequences of tokens ("" is <<>>); in a URL host the
\* characters ':', '[' and ']' are tokens of their own
stringLengthLimit == 1024
truncateString(s) ==
    SubSeq(s, 1, IF Len(s) < stringLengthLimit THEN Len(s) ELSE stringLengthLimit)

\* a *url.URL: nil, or its scheme and host
NoURL == [nil |-> TRUE, Scheme |-> "", Host |-> <<>>]
URL(scheme, host) == [nil |-> FALSE, Scheme |-> scheme, Host |-> host]

\* strconv for the ports that occur
Atoi(tok) ==
    CASE tok = "80" -> 80 [] tok = "443" -> 443 [] tok = "8443" -> 8443
      [] OTHER -> 0
Itoa(n) ==
    CASE n = 80 -> "80" [] n = 443 -> "443" [] n = 8443 -> "8443"
      [] OTHER -> "0"

\* strings.LastIndexByte, 1-based (0 for -1)
LastIndexByte(s, c) ==
    IF \E i \in 1..Len(s) : s[i] = c
    THEN CHOOSE i \in 1..Len(s) : s[i] = c /\ \A j \in (i+1)..Len(s) : s[j] # c
    ELSE 0

\* apmhttputil.SchemeDefaultPort
SchemeDefaultPort(scheme) ==
    CASE scheme = "http" -> 80 [] scheme = "https" -> 443 [] OTHER -> 0

\* apmhttputil.DestinationAddr: the host without port and brackets, the
\* port of the authority or else the scheme's default
DestinationAddr(url) ==
    LET h == url.Host
        i == LastIndexByte(h, ":")
        hasPort == Len(h) > 0 /\ h[Len(h)] # "]" /\ i # 0
        host == IF hasPort THEN SubSeq(h, 1, i - 1) ELSE h
        bare == IF Len(host) > 1 /\ host[1] = "[" /\ host[Len(host)] = "]"
                THEN SubSeq(host, 2, Len(host) - 1) ELSE host
    IN [addr |-> bare,
        port |-> IF hasPort THEN Atoi(h[Len(h)])
                 ELSE SchemeDefaultPort(url.Scheme)]

\* url.URL{Scheme, Host}.String()
URLString(scheme, host) ==
    IF scheme = "" THEN (IF host = <<>> THEN <<>> ELSE <<"//">> \o host)
    ELSE <<scheme, "://">> \o host

\* the zero SpanContext; a pointer of model is TRUE when set
ZeroSpanContext ==
    [model |-> [Tags |-> <<>>, Message |-> FALSE, Database |-> FALSE,
                HTTP |-> FALSE, Destination |-> FALSE, Service |-> FALSE],
     destination |-> [Address |-> <<>>, Port |-> 0, Service |-> FALSE,
                      Cloud |-> FALSE],
     destinationService |-> [Name |-> <<>>, Resource |-> <<>>],
     service |-> [Target |-> FALSE],
     serviceTarget |-> [Type |-> <<>>, Name |-> <<>>],
     destinationCloud |-> [Region |-> <<>>],
     message |-> [Queue |-> <<>>],
     database |-> [Instance |-> <<>>, Statement |-> <<>>, Type |-> <<>>,
                   User |-> <<>>],
     http |-> [URL |-> NoURL, StatusCode |-> 0],
     setDestinationServiceCalled |-> FALSE]

\* SpanContext.build: nil, or the model with what it points to
build(c) ==
    IF \/ Len(c.model.Tags) # 0
       \/ c.model.Message
       \/ c.model.Database
       \/ c.model.HTTP
       \/ c.model.Destination
    THEN [nil |-> FALSE, context |-> c]
    ELSE [nil |-> TRUE, context |-> ZeroSpanContext]

\* SpanContext.reset: the zero value, keeping the (emptied) label slice
resetSpanContext(c) == ZeroSpanContext

\* cleanLabelKey: '.', '*' and '"' become underscores
cleanLabelKey(key) ==
    [i \in 1..Len(key) |-> IF key[i] \in {".", "*", "\""} THEN "_" ELSE key[i]]

\* SpanContext.SetLabel
SetLabel(c, key, value) ==
    [c EXCEPT !.model.Tags =
        Append(@, [Key |-> cleanLabelKey(key), Value |-> value])]

\* SpanContext.SetDatabase
SetDatabase(c, db) ==
    [c EXCEPT !.database = [Instance |-> truncateString(db.Instance),
                            Statement |-> db.Statement,
                            Type |-> truncateString(db.Type),
                            User |-> truncateString(db.User)],
              !.model.Database = TRUE]

\* SpanContext.SetHTTPStatusCode
SetHTTPStatusCode(c, statusCode) ==
    [c EXCEPT !.http.StatusCode = statusCode, !.model.HTTP = TRUE]

\* SpanContext.SetDestinationAddress
SetDestinationAddress(c, addr, port) ==
    IF addr # <<>>
    THEN [c EXCEPT !.destination.Address = truncateString(addr),
                   !.destination.Port = port,
                   !.model.Destination = TRUE]
    ELSE c

\* SpanContext.SetMessage
SetMessage(c, message) ==
    IF message.QueueName = <<>> THEN c
    ELSE [c EXCEPT !.message.Queue = truncateString(message.QueueName),
                   !.model.Message = TRUE]

\* SpanContext.SetDestinationService
SetDestinationService(c, service) ==
    LET called == [c EXCEPT !.setDestinationServiceCalled = TRUE] IN
    IF service.Resource = <<>> THEN called
    ELSE [called EXCEPT
             !.destinationService.Name = truncateString(service.Name),
             !.destinationService.Resource = truncateString(service.Resource),
             !.destination.Service = TRUE,
             !.model.Destination = TRUE]

\* SpanContext.SetServiceTarget
SetServiceTarget(c, service) ==
    [c EXCEPT !.serviceTarget = [Type |-> truncateString(service.Type),
                                 Name |-> truncateString(service.Name)],
              !.service.Target = TRUE,
              !.model.Service = TRUE]

\* SpanContext.SetDestinationCloud
SetDestinationCloud(c, cloud) ==
    [c EXCEPT !.destinationCloud.Region = truncateString(cloud.Region),
              !.destination.Cloud = TRUE,
              !.model.Destination = TRUE]

\* mutant: the default port is removed from the resource as from the name
DestinationServiceOfPortless(url, port) ==
    LET host == url.Host
        i == LastIndexByte(host, ":")
        strip == /\ port # 0
                 /\ port = SchemeDefaultPort(url.Scheme)
                 /\ Len(host) > 0
                 /\ host[Len(host)] # "]"
                 /\ i # 0
        stripped == IF strip THEN SubSeq(host, 1, i - 1) ELSE host
    IN [Name |-> URLString(url.Scheme, stripped), Resource |-> stripped]

\* the destination service SetHTTPRequest derives: the name without the
\* scheme's default port, the resource with the port
DestinationServiceOf(url, port) ==
    LET host == url.Host
        i == LastIndexByte(host, ":")
        isDefault == port # 0 /\ port = SchemeDefaultPort(url.Scheme)
        hasDefaultPort == /\ isDefault
                          /\ Len(host) > 0
                          /\ host[Len(host)] # "]"
                          /\ i # 0
    IN [Name |-> URLString(url.Scheme,
                           IF hasDefaultPort THEN SubSeq(host, 1, i - 1)
                           ELSE host),
        Resource |-> IF isDefault /\ ~hasDefaultPort
                     THEN host \o <<":", Itoa(port)>>
                     ELSE host]

\* SpanContext.SetHTTPRequest
SetHTTPRequest(c, req) ==
    IF req.URL.nil THEN c
    ELSE LET dest == DestinationAddr(req.URL)
             withURL == [c EXCEPT !.http.URL = req.URL, !.model.HTTP = TRUE]
         IN SetDestinationService(
                SetDestinationAddress(withURL, dest.addr, dest.port),
                DestinationServiceOf(req.URL, dest.port))

\* a call on the span's context: the context it leaves, and the call
SpanContextCall(op, arg, c) ==
    /\ spanContext' = c
    /\ lastOp' = [op |-> op, arg |-> arg]
    /\ UNCHANGED <<txVars, threadVars, cfgVars, tdata, allocated, pool, events,
                   stats, breakdown, endedSpans, active, handoffs, returned>>

\* -------------------------------------------------- dropped-span calls
\* no call on the span context or the dropped-span map yet
NoOp == [op |-> "none", arg |-> 0]

\* a dropped span of the transaction is accounted for, while no End or
\* Discard is running: the call of droppedSpansStats.add on the
\* transaction's data
addDroppedSpanStats(tx, dst, outcome, count, d) ==
    /\ tx \in created
    /\ mu[tx] = NoThread
    /\ tdOf[tx] # Nil
    /\ tdata' = [tdata EXCEPT ![tdOf[tx]].droppedSpansStats =
                     add(@, dst, outcome, count, d)]
    /\ lastOp' = [op |-> "add",
                  arg |-> [key |-> droppedSpanTimingsKey(dst, outcome),
                           count |-> count, d |-> d]]
    /\ UNCHANGED <<txVars, threadVars, cfgVars, allocated, pool, events, stats,
                   breakdown, endedSpans, active, handoffs, returned,
                   spanContext>>

\* mutant: a status of exactly 400 still counts as a success
outcomeOffByOne(c) ==
    IF c.http.StatusCode # 0
    THEN (IF c.http.StatusCode <= 400 THEN "success" ELSE "failure")
    ELSE ""

\* SpanContext.outcome
outcome(c) ==
    IF c.http.StatusCode # 0
    THEN (IF c.http.StatusCode < 400 THEN "success" ELSE "failure")
    ELSE ""

\* ------------------------------------------------------------------- Init
InitWith(rec, strategy, sampler, act) ==
    /\ created = {}
    /\ tdOf = [t \in Tx |-> Nil]
    /\ traceContext = [t \in Tx |-> ZeroTraceContext]
    /\ parentID = [t \in Tx |-> ZeroSpan]
    /\ mu = [t \in Tx |-> NoThread]
    /\ tdata = [d \in TD |-> ZeroTD]
    /\ allocated = {}
    /\ pool = [d \in TD |-> 0]
    /\ events = <<>>
    /\ stats = 0
    /\ breakdown = 0
    /\ endedSpans = {}
    /\ active = act
    /\ config = Snapshot(0, InitialValues(rec, strategy, sampler), {})
    /\ localMap = [k \in ConfigKeys |-> InitialValues(rec, strategy, sampler)[k]]
    /\ cfgCalls = 0
    /\ upd = IdleUpdater
    /\ upd2 = IdleUpdater
    /\ serial = [values |-> InitialValues(rec, strategy, sampler), remote |-> {},
                 local |-> [k \in ConfigKeys |->
                               InitialValues(rec, strategy, sampler)[k]],
                 applied |-> 0]
    /\ rem = IdleRemote
    /\ startOpts = [t \in Tx |-> ZeroOpts]
    /\ startCfg = [t \in Tx |-> Snapshot(0, InitialValues(rec, strategy, sampler), {})]
    /\ startDraw = [t \in Tx |-> NoDraw]
    /\ pc = [th \in Threads |-> "idle"]
    /\ call = [th \in Threads |-> NoCall]
    /\ ret = [th \in Threads |-> NoRet]
    /\ handoffs = [t \in Tx |-> 0]
    /\ returned = [t \in Tx |-> FALSE]
    /\ spanContext = ZeroSpanContext
    /\ lastOp = NoOp

\* ---------------------------------------- the lifecycle specification
\* one transaction handle, called by concurrent goroutines, while the span
\* cache, the sender and a local config update run; the tracer is
\* constructed active or not, recording or not, with the default strategy
\* and no sampler
Init == \E rec \in BOOLEAN, act \in BOOLEAN :
            InitWith(rec, "continue", NilSampler, act)

\* the inbound contexts the transaction is started from here: none, and a
\* valid one
LifeOpts ==
    {ZeroOpts,
     MkOpts(<<1, 0>>, 1, 1, ZeroState, ZeroSpan, 0, <<>>)}

Elapsed == {1}

Next ==
    \/ \E opts \in LifeOpts, rnd \in IdVals \X IdVals :
          StartTransactionOptions(1, "name", "request", opts, rnd, TRUE)
    \/ \E th \in Threads, op \in Ops, tx \in Tx : Lock(th, op, tx)
    \/ \E th \in Threads : EnsureParent(th)
    \/ \E th \in Threads : ShouldPropagateLegacyHeader(th)
    \/ \E th \in Threads : Discard(th)
    \/ \E th \in Threads, e \in Elapsed : End(th, e)
    \/ \E th \in Threads : Detach(th)
    \/ \E th \in Threads : Unlock(th)
    \/ \E tx \in Tx : CacheSpan(tx)
    \/ SenderReceive
    \/ /\ cfgCalls < MaxCfgUpdates
       /\ \E val \in BOOLEAN : setLocalInstrumentationConfig("recording", val)
    \/ CompareAndSwap

Spec == Init /\ [][Next]_vars

\* ---------------------------------------------- the pool specification
\* several transactions started, ended and discarded by concurrent
\* goroutines, sharing the pool and the sender queue
InitPool == \E rec \in BOOLEAN : InitWith(rec, "continue", NilSampler, TRUE)

NextPool ==
    \/ \E tx \in Tx :
          StartTransactionOptions(tx, "name", "request", ZeroOpts, <<1, 1>>, TRUE)
    \/ \E th \in Threads, op \in {"End", "Discard"}, tx \in Tx : Lock(th, op, tx)
    \/ \E th \in Threads : Discard(th)
    \/ \E th \in Threads, e \in Elapsed : End(th, e)
    \/ \E th \in Threads : Detach(th)
    \/ \E th \in Threads : Unlock(th)
    \/ SenderReceive

SpecPool == InitPool /\ [][NextPool]_vars

\* ------------------------------------------ the start specification
\* one transaction started from every inbound context, under every
\* continuation strategy, sampler, recording and active setting
StartSamplers == {NilSampler, 40, 500049}
StartLinkLists == {<<>>, <<<<<<1, 1>>, 1>>>>}

InitStart == \E rec \in BOOLEAN, strategy \in ContinuationStrategies,
                sampler \in StartSamplers, act \in BOOLEAN :
                InitWith(rec, strategy, sampler, act)

NextStart ==
    /\ 1 \notin created
    /\ \E trace \in TraceIDs, span \in SpanIDs, options \in TraceOptionsVals,
          state \in InboundStates, id \in SpanIDs, links \in StartLinkLists,
          rnd \in IdVals \X IdVals, sampled \in BOOLEAN :
           StartTransactionOptions(1, "name", "request",
               MkOpts(trace, span, options, state, id, 0, links), rnd, sampled)

SpecStart == InitStart /\ [][NextStart]_vars

\* --------------------------------------- the config-store specification
\* local updates of the recording flag and remote batches run concurrently;
\* the tracer's local configuration records, with the default strategy
RawValues(k) ==
    CASE k = "recording" -> {"true", "false", "yes"}
      [] k = "trace_continuation_strategy" -> {"restart", "never"}
      [] OTHER -> {"x"}

\* the attribute maps central config may deliver
Batches ==
    UNION {{b \in [keys -> UNION {RawValues(k) : k \in keys}] :
               \A k \in keys : b[k] \in RawValues(k)} : keys \in SUBSET AttrKeys}

InitCfg == InitWith(TRUE, "continue", NilSampler, TRUE)

NextCfg ==
    \/ /\ cfgCalls < MaxCfgCalls
       /\ \E val \in BOOLEAN : setLocalInstrumentationConfig("recording", val)
    \/ CompareAndSwap
    \/ /\ cfgCalls < MaxCfgCalls
       /\ \E given \in Batches : updateRemoteConfig(given)
    \/ RemoteCompareAndSwap
    \/ RemoteReturn

SpecCfg == InitCfg /\ [][NextCfg]_vars

\* ------------------------------------------- the stamping specification
\* one transaction is started while a local update and remote batches run
StampBatches ==
    {NoAttrs,
     [k \in {"recording"} |-> "false"],
     [k \in {"recording", "trace_continuation_strategy"} |->
         IF k = "recording" THEN "false" ELSE "restart"]}

NextStamp ==
    \/ /\ cfgCalls <= MaxCfgUpdates
       /\ \E val \in BOOLEAN : setLocalInstrumentationConfig("recording", val)
    \/ CompareAndSwap
    \/ /\ cfgCalls <= MaxCfgUpdates
       /\ \E given \in StampBatches : updateRemoteConfig(given)
    \/ RemoteCompareAndSwap
    \/ RemoteReturn
    \/ \E opts \in LifeOpts :
          StartTransactionOptions(1, "name", "request", opts, <<1, 1>>, TRUE)

SpecStamp == InitCfg /\ [][NextStamp]_vars

\* ------------------------------------------ the contention specification
\* two goroutines set the recording flag locally while the tracer loop
\* applies remote batches: every call loads, copies and applies on its own,
\* and the compare-and-swaps decide the order
SpecContend ==
    /\ InitCfg
    /\ [][\/ /\ cfgCalls < MaxCfgCalls
             /\ \E val \in BOOLEAN : setLocalInstrumentationConfig("recording", val)
          \/ CompareAndSwap
          \/ /\ cfgCalls < MaxCfgCalls
             /\ \E val \in BOOLEAN :
                   setLocalInstrumentationConfigSecond("recording", val)
          \/ CompareAndSwapSecond
          \/ /\ cfgCalls < MaxCfgCalls
             /\ \E given \in {NoAttrs, [k \in {"recording"} |-> "true"]} :
                   updateRemoteConfig(given)
          \/ RemoteCompareAndSwap
          \/ RemoteReturn]_vars

\* ------------------------------------------- the lock-freedom specification
\* a transaction start loads the snapshot while two goroutines set the
\* recording flag and the tracer loop applies remote batches; every
\* goroutine that is in the update loop keeps being scheduled
SpecLockFree ==
    /\ InitCfg
    /\ [][\/ NextStamp
          \/ /\ cfgCalls <= MaxCfgUpdates
             /\ \E val \in BOOLEAN :
                   setLocalInstrumentationConfigSecond("recording", val)
          \/ CompareAndSwapSecond]_vars
    /\ WF_vars(CompareAndSwap)
    /\ WF_vars(CompareAndSwapSecond)
    /\ WF_vars(RemoteCompareAndSwap)

\* ------------------------------------- the dropped-span specification
\* one transaction whose dropped spans are accounted for. Keys are compared
\* for equality only, so the n-th distinct key that arrives is taken to be
\* DropKeyAt(n); it arrives with count 1 and duration 1. Two of the keys,
\* the first and the last that fits, are added to again, with count 2 and
\* duration 3, while their count is below MaxDroppedCount.
DropKeyAt(i) ==
    droppedSpanTimingsKey((i + 1) \div 2,
                          IF i % 2 = 1 THEN "success" ELSE "failure")
DroppedOf(tx) == tdata[tdOf[tx]].droppedSpansStats

NextDropped ==
    \/ /\ 1 \notin created
       /\ StartTransactionOptions(1, "name", "request", ZeroOpts, <<1, 1>>, TRUE)
    \/ /\ 1 \in created
       /\ LET k == DropKeyAt(Cardinality(DOMAIN DroppedOf(1)) + 1)
          IN addDroppedSpanStats(1, k.destination, k.outcome, 1, 1)
    \/ /\ 1 \in created
       /\ \E k \in {DropKeyAt(1), DropKeyAt(maxDroppedSpanStats)}
                    \cap DOMAIN DroppedOf(1) :
             /\ DroppedOf(1)[k].count < MaxDroppedCount
             /\ addDroppedSpanStats(1, k.destination, k.outcome, 2, 3)

SpecDropped == InitCfg /\ [][NextDropped]_vars

\* -------------------------------------------- the data specification
\* one transaction, started recording or not with a span link, whose owner
\* writes its data before one goroutine ends or discards it
NextData ==
    \/ /\ 1 \notin created
       /\ \E links \in {<<<<<<1, 1>>, 1>>>>} :
             StartTransactionOptions(1, "name", "request",
                 MkOpts(ZeroTrace, ZeroSpan, 0, ZeroState, ZeroSpan, 0, links),
                 <<1, 1>>, TRUE)
    \/ \E o \in {"success", "failure", "unknown"} : SetOutcome(1, o)
    \/ \E s \in {200, 404} : ContextSetHTTPStatusCode(1, s)
    \/ CaptureError(1)
    \/ SetResult(1, "HTTP 2xx")
    \/ /\ 1 \in created
       /\ tdOf[1] # Nil
       /\ Len(tdata[tdOf[1]].Context.labels) < MaxLabels
       /\ ContextSetLabel(1, "k", 1)
    \/ /\ 1 \in created
       /\ tdOf[1] # Nil
       /\ tdata[tdOf[1]].spansCreated + tdata[tdOf[1]].spansDropped < MaxSpanStarts
       /\ \E dropped \in BOOLEAN : StartSpan(1, dropped)
    \/ AddSpanTiming(1, "db")
    \/ /\ 1 \in created
       /\ tdOf[1] # Nil
       /\ DOMAIN DroppedOf(1) = {}
       /\ addDroppedSpanStats(1, 1, "failure", 1, 1)
    \/ CacheSpan(1)
    \/ \E op \in {"End", "Discard"} : Lock(1, op, 1)
    \/ Discard(1)
    \/ \E e \in Elapsed : End(1, e)
    \/ Detach(1)
    \/ Unlock(1)
    \/ SenderReceive

SpecData == InitPool /\ [][NextData]_vars

\* --------------------------------------- the span-context specification
\* the context of one span: every setter called in any order, with the
\* arguments that make it act and those that make it return early
SpanHosts == {<<"example.com", ":", "443">>, <<"example.com", ":", "8443">>,
              <<"example.com">>, <<"[", ":", ":", "1", "]">>}
SpanRequests == {[URL |-> NoURL]}
                  \cup {[URL |-> URL("https", h)] : h \in SpanHosts}
SpanNames == {<<>>, <<"svc">>}

NextSpan ==
    \/ /\ Len(spanContext.model.Tags) < MaxLabels
       /\ SpanContextCall("SetLabel", <<"a", ".", "b">>,
                          SetLabel(spanContext, <<"a", ".", "b">>, 1))
    \/ \E db \in {[Instance |-> <<"i">>, Statement |-> <<"SELECT">>,
                   Type |-> <<"sql">>, User |-> <<"u">>]} :
          SpanContextCall("SetDatabase", db, SetDatabase(spanContext, db))
    \/ \E req \in SpanRequests :
          SpanContextCall("SetHTTPRequest", req, SetHTTPRequest(spanContext, req))
    \/ \E s \in {0, 200, 399, 400} :
          SpanContextCall("SetHTTPStatusCode", s, SetHTTPStatusCode(spanContext, s))
    \/ \E addr \in SpanNames :
          SpanContextCall("SetDestinationAddress", [addr |-> addr, port |-> 5432],
                          SetDestinationAddress(spanContext, addr, 5432))
    \/ \E n \in SpanNames :
          SpanContextCall("SetMessage", [QueueName |-> n],
                          SetMessage(spanContext, [QueueName |-> n]))
    \/ \E n \in SpanNames, r \in SpanNames :
          SpanContextCall("SetDestinationService", [Name |-> n, Resource |-> r],
                          SetDestinationService(spanContext,
                                                [Name |-> n, Resource |-> r]))
    \/ \E target \in {[Type |-> <<"sql">>, Name |-> <<"i">>]} :
          SpanContextCall("SetServiceTarget", target,
                          SetServiceTarget(spanContext, target))
    \/ \E cloud \in {[Region |-> <<"r1">>]} :
          SpanContextCall("SetDestinationCloud", cloud,
                          SetDestinationCloud(spanContext, cloud))
    \/ SpanContextCall("reset", 0, resetSpanContext(spanContext))

SpecSpan == InitCfg /\ [][NextSpan]_vars

\* ------------------------------------------------------------ the claims
CallIs(th, ops) == call[th].op \in ops
Stepped(th) == pc'[th] # pc[th]
DataVars == <<events, pool, tdata, stats, breakdown, endedSpans, tdOf, handoffs>>

\* C1: once End or Discard has returned on a handle, every step of a later
\* End or Discard call on it leaves the event queue, the pool, the
\* TransactionData objects and the counters as they are.
C1_EndDiscardIdempotent ==
    [][\A th \in Threads :
          (CallIs(th, {"End", "Discard"}) /\ returned[call[th].tx] /\ Stepped(th))
              => UNCHANGED DataVars]_vars

\* a second End or Discard call is returning, having found the handle ended
C1_Witness ==
    \E th \in Threads :
        /\ CallIs(th, {"End", "Discard"})
        /\ pc[th] = "unlock"
        /\ returned[call[th].tx]

\* C2: calls on one handle exclude each other between the ended check and
\* the unlock, the data of a handle is handed off (enqueued or recycled) at most once, and exactly
\* once when an End or Discard has returned.
InCall(th, tx) == pc[th] \in {"body", "detach", "unlock"} /\ call[th].tx = tx
C2_ExactlyOneEndTakesEffect ==
    /\ \A tx \in Tx : \A t1, t2 \in Threads :
           (InCall(t1, tx) /\ InCall(t2, tx)) => t1 = t2
    /\ \A tx \in Tx : handoffs[tx] <= 1
    /\ \A tx \in Tx : returned[tx] => (handoffs[tx] = 1 /\ tdOf[tx] = Nil)
    /\ \A d \in TD : pool[d] <= 1

\* End has taken effect on a handle whose parent ID another call generated
C2_Witness ==
    \E th \in Threads :
        /\ CallIs(th, {"End"})
        /\ pc[th] = "detach"
        /\ handoffs[call[th].tx] = 1
        /\ startOpts[call[th].tx] = ZeroOpts
        /\ parentID[call[th].tx] # ZeroSpan

\* C3: End of a recording transaction is never blocked by the queue, and
\* its step either appends the transaction event, leaving the drop counter,
\* the breakdown metrics and the pool alone, or, the queue being full,
\* appends nothing, adds 1 to TransactionsDropped, records the transaction
\* in the breakdown metrics and puts the zeroed data in the pool.
EndSteps(th) ==
    /\ pc[th] = "body"
    /\ pc'[th] = "detach"
    /\ call[th].op = "End"
HoldsTx(q, tx) ==
    \E i \in 1..Len(q) : q[i].eventType = "transaction" /\ q[i].tx = tx
C3_EnqueueOrDrop ==
    /\ [](\A th \in Threads :
            (pc[th] = "body" /\ call[th].op = "End" /\ tdOf[call[th].tx] # Nil)
                => \E e \in Elapsed : ENABLED End(th, e))
    /\ [][\A th \in Threads :
            (EndSteps(th) /\ tdata[tdOf[call[th].tx]].recording) =>
                LET tx == call[th].tx
                    d == tdOf[tx]
                IN \/ /\ events' # <<>>
                      /\ events'[Len(events')] = TransactionEvent(tx, d)
                      /\ stats' = stats
                      /\ breakdown' = breakdown
                      /\ pool' = pool
                   \/ /\ Len(events') = QueueCap
                      /\ ~HoldsTx(events', tx)
                      /\ stats' = stats + 1
                      /\ breakdown' = breakdown + 1
                      /\ tdata'[d] = ZeroTD
                      /\ pool' = PoolPut(pool, d)]_vars

\* an End has just dropped its event on a full queue
C3_Witness ==
    \E th \in Threads :
        /\ CallIs(th, {"End"})
        /\ pc[th] = "detach"
        /\ stats = 1
        /\ Len(events) = QueueCap
        /\ ~HoldsTx(events, call[th].tx)

\* C4: a transaction started while the tracer is inactive, or under a
\* snapshot with recording=false, never has an event in the sender queue.
C4_PlaceholderNeverEnqueued ==
    \A i \in 1..Len(events) :
        events[i].eventType = "transaction" =>
            (active /\ startCfg[events[i].tx].values.recording)

\* C5 as claimed: the handoff step of every End and Discard leaves the data
\* zeroed and in the pool, and a handle whose End or Discard has returned
\* holds no data.
HandoffSteps(th) ==
    /\ pc[th] = "body"
    /\ pc'[th] = "detach"
C5_AlwaysRecycled ==
    /\ [](\A tx \in Tx : returned[tx] => tdOf[tx] = Nil)
    /\ [][\A th \in Threads : HandoffSteps(th) =>
            LET d == tdOf[call[th].tx] IN
                /\ tdata'[d] = ZeroTD
                /\ pool' = PoolPut(pool, d)]_vars

\* C5 as amended: a handle whose End or Discard has returned holds no data;
\* the handoff step leaves the data zeroed and in the pool, except when End
\* of a recording transaction finds room in the queue (after the evicted
\* compressed span, if any, was sent): then the data, not reset, is held by
\* the queued transaction event and the pool is unchanged.
C5_DetachedAndRecycledOrQueued ==
    /\ [](\A tx \in Tx : returned[tx] => tdOf[tx] = Nil)
    /\ [][\A th \in Threads : HandoffSteps(th) =>
            LET tx == call[th].tx
                d == tdOf[tx]
                s == tdata[d].compressedSpan.cache
                sent == /\ call[th].op = "End"
                        /\ tdata[d].recording
                        /\ Len(events) + (IF s # NoSpan THEN 1 ELSE 0) < QueueCap
            IN IF sent
               THEN /\ events'[Len(events')] = TransactionEvent(tx, d)
                    /\ tdata'[d] # ZeroTD
                    /\ pool' = pool
               ELSE /\ ~HoldsTx(events', tx)
                    /\ tdata'[d] = ZeroTD
                    /\ pool' = PoolPut(pool, d)]_vars

\* End has returned with the data handed to the queue, not to the pool
C5_Witness ==
    \E tx \in Tx :
        /\ returned[tx]
        /\ tdOf[tx] = Nil
        /\ HoldsTx(events, tx)
        /\ \A d \in TD : pool[d] = 0

\* C6: every TransactionData has at most one owner among the active
\* transactions, the pool and the events of the sender queue. A handle is
\* active until its End or Discard has handed the data off.
HandedOff(tx) == \E th \in Threads : pc[th] = "detach" /\ call[th].tx = tx
ActiveOwners(d) == {tx \in created : tdOf[tx] = d /\ ~HandedOff(tx)}
QueueOwners(d) ==
    {i \in 1..Len(events) : events[i].eventType = "transaction" /\ events[i].td = d}
C6_SingleOwner ==
    \A d \in TD :
        Cardinality(ActiveOwners(d)) + pool[d] + Cardinality(QueueOwners(d)) <= 1

\* the second handle holds the data the first one held and gave back
C6_Witness ==
    /\ MaxTx >= 2
    /\ tdOf[1] = Nil
    /\ tdOf[2] = 1
    /\ returned[1]

\* C7: whenever a pending compressed span leaves the cache, it has been
\* ended (emitted).
C7_PendingSpanAlwaysFlushed ==
    [][\A d \in TD :
          (tdata[d].compressedSpan.cache # NoSpan
             /\ tdata'[d].compressedSpan.cache = NoSpan)
              => tdata[d].compressedSpan.cache \in endedSpans']_vars

\* C8: the trace context of a started transaction, and so what
\* TraceContext() and Sampled() return, never changes.
Sampled(tx) == Recorded(traceContext[tx].Options)
C8_TraceContextImmutable ==
    [][\A tx \in created :
          /\ traceContext'[tx] = traceContext[tx]
          /\ Sampled(tx)' = Sampled(tx)]_vars

\* a sampled transaction has ended after EnsureParent generated its parent
\* ID and after a config update was published
C8_Witness ==
    \E tx \in created :
        /\ returned[tx]
        /\ Sampled(tx)
        /\ parentID[tx] # ZeroSpan
        /\ startOpts[tx] = ZeroOpts
        /\ config.id # startCfg[tx].id

\* C9: an EnsureParent call on an ended handle returns the zero SpanID and
\* changes nothing; on an active handle with no parent ID it sets the parent
\* ID to the last 8 bytes of the trace ID and returns it; with a parent ID
\* it returns that ID unchanged; a parent ID that is set never changes.
EnsureParentReturns(th) ==
    /\ call'[th].op = "EnsureParent"
    /\ pc[th] # "unlock"
    /\ pc'[th] = "unlock"
C9_EnsureParent ==
    [][/\ \A th \in Threads : EnsureParentReturns(th) =>
             LET tx == call'[th].tx IN
             IF tdOf[tx] = Nil
             THEN /\ ret'[th] = RetID(ZeroSpan)
                  /\ UNCHANGED <<txVars, DataVars>>
             ELSE /\ ret'[th] = RetID(parentID'[tx])
                  /\ parentID'[tx] = IF parentID[tx] = ZeroSpan
                                     THEN traceContext[tx].Trace[2]
                                     ELSE parentID[tx]
       /\ \A tx \in created :
             parentID[tx] # ZeroSpan => parentID'[tx] = parentID[tx]]_vars

\* EnsureParent is returning the parent ID it generated for a root
\* transaction, while another call has already found the other handle ended
C9_Witness ==
    \E th \in Threads :
        /\ call[th].op = "EnsureParent"
        /\ pc[th] = "unlock"
        /\ tdOf[call[th].tx] # Nil
        /\ startOpts[call[th].tx] = ZeroOpts
        /\ ret[th] = RetID(traceContext[call[th].tx].Trace[2])
        /\ ret[th].id # ZeroSpan

\* C10: a recording transaction started under the continue strategy from a
\* valid inbound context has the inbound trace ID, the inbound span ID as
\* parent ID, and exactly the caller's links.
ValidInbound(opts) ==
    /\ TraceValid(opts.TraceContext.Trace)
    /\ SpanValid(opts.TraceContext.Span)
StartedRecording(tx) ==
    /\ tx \in created
    /\ active
    /\ startCfg[tx].values.recording
C10_ContinuePreservesTrace ==
    \A tx \in Tx :
        (/\ StartedRecording(tx)
         /\ tdOf[tx] # Nil
         /\ startCfg[tx].values.continuationStrategy = "continue"
         /\ ValidInbound(startOpts[tx]))
        => /\ traceContext[tx].Trace = startOpts[tx].TraceContext.Trace
           /\ parentID[tx] = startOpts[tx].TraceContext.Span
           /\ tdata[tdOf[tx]].links = startOpts[tx].Links

C10_Witness ==
    \E tx \in Tx :
        /\ StartedRecording(tx)
        /\ startCfg[tx].values.continuationStrategy = "continue"
        /\ ValidInbound(startOpts[tx])
        /\ startOpts[tx].Links # <<>>
        /\ traceContext[tx].Trace = startOpts[tx].TraceContext.Trace
        /\ traceContext[tx].Span # startOpts[tx].TraceContext.Span


\* ------------------------- claims about the continuation strategies
InboundLink(opts) == <<opts.TraceContext.Trace, opts.TraceContext.Span>>
Words(tx) == startDraw[tx].words
Answers(tx) == startDraw[tx].answers
\* the transaction generated its trace ID (the root flag of the start)
Root(tx) == StartedRecording(tx) /\ Len(Words(tx)) = 2
NonRoot(tx) == StartedRecording(tx) /\ Len(Words(tx)) < 2
GeneratedTrace(tx) == <<Words(tx)[1], Words(tx)[2]>>
HasLink(tx, link) ==
    \E i \in 1..Len(tdata[tdOf[tx]].links) : tdata[tdOf[tx]].links[i] = link
UnderStrategy(tx, strategy) ==
    /\ StartedRecording(tx)
    /\ tdOf[tx] # Nil
    /\ startCfg[tx].values.continuationStrategy = strategy

StartResult(tx) == <<traceContext[tx], parentID[tx], tdata[tdOf[tx]]>>
\* the words and the answer of the start, as the arguments of a start
DrawnRnd(tx) ==
    CASE Len(Words(tx)) = 2 -> <<Words(tx)[1], Words(tx)[2]>>
      [] Len(Words(tx)) = 1 -> <<Words(tx)[1], 0>>
      [] OTHER -> <<0, 0>>
DrawnSampled(tx) == IF Answers(tx) # <<>> THEN Answers(tx)[1] ELSE TRUE
\* the result of the same start, with the same draws, under another strategy
ResultUnder(tx, strategy) ==
    LET cfg == [startCfg[tx].values EXCEPT !.continuationStrategy = strategy]
    IN <<StartTraceContext(cfg, startOpts[tx], DrawnRnd(tx), DrawnSampled(tx)),
         StartParentID(cfg, startOpts[tx]),
         StartData(ZeroTD, cfg, tdata[tdOf[tx]].Name, tdata[tdOf[tx]].Type,
                   startOpts[tx])>>
DrawsUnder(tx, strategy) ==
    LET cfg == [startCfg[tx].values EXCEPT !.continuationStrategy = strategy]
    IN [words |-> RandWords(cfg, startOpts[tx], DrawnRnd(tx)),
        answers |-> SamplerAnswers(cfg, startOpts[tx], DrawnSampled(tx))]

\* C12: a transaction started under restart_external has the trace context,
\* parent ID and data (links included) that the same start, with the same
\* draws from the generator and the sampler, has under continue when the
\* inbound trace state carries the vendor key, and under restart otherwise.
C12_RestartExternalEquivalence ==
    \A tx \in Tx : UnderStrategy(tx, "restart_external") =>
        LET as == IF startOpts[tx].TraceContext.State.haveElastic
                  THEN "continue" ELSE "restart"
        IN /\ StartResult(tx) = ResultUnder(tx, as)
           /\ startDraw[tx] = DrawsUnder(tx, as)
           /\ as = "continue" =>
                 (/\ tdata[tdOf[tx]].links = startOpts[tx].Links
                  /\ TraceValid(startOpts[tx].TraceContext.Trace) =>
                         traceContext[tx].Trace = startOpts[tx].TraceContext.Trace)
           /\ (as = "restart" /\ ValidInbound(startOpts[tx])) =>
                 HasLink(tx, InboundLink(startOpts[tx]))

\* a valid inbound context carrying the vendor key was continued under
\* restart_external, where restart gives another result
C12_Witness ==
    \E tx \in Tx :
        /\ UnderStrategy(tx, "restart_external")
        /\ startOpts[tx].TraceContext.State.haveElastic
        /\ ValidInbound(startOpts[tx])
        /\ parentID[tx] = startOpts[tx].TraceContext.Span
        /\ StartResult(tx) # ResultUnder(tx, "restart")

\* the inbound contexts whose trace ID fails validation
MalformedOpts ==
    {MkOpts(ZeroTrace, span, options, state, id, 0, links) :
        span \in SpanIDs, options \in TraceOptionsVals, state \in InboundStates,
        id \in SpanIDs, links \in StartLinkLists}

\* C13: under every strategy, a start from an inbound context whose trace ID
\* fails validation is always possible, and the transaction is a root: its
\* trace ID is the one generated from tx.rand, it has no parent ID, and no
\* link is recorded for the inbound context.
C13_MalformedInboundStartsRoot ==
    /\ (1 \notin created) =>
          \A opts \in MalformedOpts :
              ENABLED StartTransactionOptions(1, "name", "request", opts,
                                              <<1, 1>>, TRUE)
    /\ \A tx \in Tx :
          (/\ StartedRecording(tx)
           /\ tdOf[tx] # Nil
           /\ ~TraceValid(startOpts[tx].TraceContext.Trace))
          => /\ Root(tx)
             /\ traceContext[tx].Trace = GeneratedTrace(tx)
             /\ parentID[tx] = ZeroSpan
             /\ tdata[tdOf[tx]].links = startOpts[tx].Links

\* a transaction was started as a root from an inbound context with a zero
\* trace ID and a non-zero span ID, under a strategy other than continue
C13_Witness ==
    \E tx \in Tx :
        /\ StartedRecording(tx)
        /\ startCfg[tx].values.continuationStrategy = "restart"
        /\ startOpts[tx].TraceContext.Trace = ZeroTrace
        /\ startOpts[tx].TraceContext.Span # ZeroSpan
        /\ traceContext[tx].Trace # ZeroTrace
        /\ parentID[tx] = ZeroSpan

\* C14: for a transaction that continues an inbound trace the sampler is
\* not asked, and the flags (so the recorded flag) are the inbound ones,
\* whatever sampler the snapshot holds.
C14_NonRootCopiesRecordedFlag ==
    \A tx \in Tx : NonRoot(tx) =>
        /\ Answers(tx) = <<>>
        /\ traceContext[tx].Options = startOpts[tx].TraceContext.Options
        /\ Sampled(tx) = Recorded(startOpts[tx].TraceContext.Options)

\* an inbound trace that is not recorded was continued under a snapshot
\* with a sampler
C14_Witness ==
    \E tx \in Tx :
        /\ NonRoot(tx)
        /\ startCfg[tx].values.sampler # NilSampler
        /\ TraceValid(startOpts[tx].TraceContext.Trace)
        /\ ~Recorded(startOpts[tx].TraceContext.Options)
        /\ ~Sampled(tx)

\* C15: the recorded flag of a root transaction is set exactly when the
\* snapshot has no sampler or the sampler answered Sampled=true; the sampler
\* is asked exactly when there is one; the flags of the inbound context have
\* no part in it.
C15_RootRecordedIffSampled ==
    \A tx \in Tx : Root(tx) =>
        LET sampler == startCfg[tx].values.sampler IN
        /\ Len(Answers(tx)) = (IF sampler = NilSampler THEN 0 ELSE 1)
        /\ Sampled(tx) <=> (sampler = NilSampler \/ Answers(tx)[1])
        /\ traceContext[tx].Options = WithRecorded(0, Sampled(tx))

\* a recorded, valid inbound context was restarted and the sampler answered
\* no: the root is not recorded
C15_Witness ==
    \E tx \in Tx :
        /\ Root(tx)
        /\ ValidInbound(startOpts[tx])
        /\ Recorded(startOpts[tx].TraceContext.Options)
        /\ Answers(tx) = <<FALSE>>
        /\ ~Sampled(tx)

\* C16: the trace state of an unsampled root transaction holds the vendor
\* entry with sample rate 0, whatever the rate of the sampler.
C16_UnsampledRootRateZero ==
    \A tx \in Tx : (Root(tx) /\ ~Sampled(tx)) =>
        /\ traceContext[tx].State.haveElastic
        /\ traceContext[tx].State.rate = 0

\* an unsampled root under a sampler with a non-zero rate
C16_Witness ==
    \E tx \in Tx :
        /\ Root(tx)
        /\ ~Sampled(tx)
        /\ startCfg[tx].values.sampler > 0
        /\ traceContext[tx].State = NewTraceState(0)


\* --------------------------------------- claims about the config store
\* C17: the recording flag of a started transaction, and for a recording
\* transaction its span limit, compression switch, header capture, legacy
\* header flag and the trace context that the continuation strategy and the
\* sampler give, are those of the one snapshot that was published when the
\* start loaded it, and stay so whatever local or remote update follows.
Stamped(tx) ==
    LET cfg == startCfg[tx].values
        d == tdata[tdOf[tx]]
    IN /\ d.recording = cfg.recording
       /\ StartedRecording(tx) =>
             /\ d.maxSpans = cfg.maxSpans
             /\ d.compressedSpan.enabled = cfg.compressionEnabled
             /\ d.Context.captureHeaders = cfg.captureHeaders
             /\ d.propagateLegacyHeader = cfg.propagateLegacyHeader
             /\ d.links = StartLinks(cfg.continuationStrategy, startOpts[tx])
             /\ traceContext[tx] =
                    StartTraceContext(cfg, startOpts[tx], DrawnRnd(tx),
                                      DrawnSampled(tx))
C17_StampedFromOneSnapshot ==
    \A tx \in created : tdOf[tx] # Nil => Stamped(tx)

\* a transaction started recording and continuing its inbound trace lives
\* on while remote config has turned recording off and the strategy to restart
C17_Witness ==
    \E tx \in created :
        /\ StartedRecording(tx)
        /\ tdata[tdOf[tx]].recording
        /\ ValidInbound(startOpts[tx])
        /\ traceContext[tx].Trace = startOpts[tx].TraceContext.Trace
        /\ ~config.values.recording
        /\ config.values.continuationStrategy = "restart"
        /\ config.remote = {"recording", "continuationStrategy"}

\* C18: the published snapshot changes only by a successful compare-and-swap,
\* and the one of a remote batch publishes the whole batch: the remote set
\* built from attrs, the parsed value of every changed attribute, the local
\* value of every removed attribute, every other field as it was.
RemotePublishes == rem.pc = "cas" /\ rem'.pc = "return"
LocalPublishes == upd.pc = "cas" /\ upd'.pc = "idle"
LocalInFlight(f) == upd.pc = "cas" /\ upd.key = f
BatchChanged(f) == {k \in Changed(rem.old, rem.attrs) : envName(k) = f}
BatchReverted(f) == {k \in Reverted(rem.old, rem.attrs) : envName(k) = f}
C18_BatchPublishedAtOnce ==
    [][/\ (config' # config) => (RemotePublishes \/ LocalPublishes)
       /\ RemotePublishes =>
            /\ config'.remote = RemoteSet(rem.attrs)
            /\ \A f \in DOMAIN config.values :
                  IF BatchChanged(f) # {}
                  THEN \E k \in BatchChanged(f) :
                          config'.values[f] = ParseAttr(k, rem.attrs[k]).value
                  ELSE IF BatchReverted(f) # {}
                  THEN config'.values[f] = localMap[f] \/ LocalInFlight(f)
                  ELSE config'.values[f] = config.values[f]]_vars

\* the first batch has been published, changing two fields and the remote
\* set by the one snapshot allocated so far
C18_Witness ==
    /\ rem.pc = "return"
    /\ cfgCalls = 1
    /\ rem.old = NoAttrs
    /\ DOMAIN rem.attrs = {"recording", "trace_continuation_strategy"}
    /\ config.remote = {"recording", "continuationStrategy"}
    /\ ~config.values.recording
    /\ config.values.continuationStrategy = "restart"

\* C19: a field whose key is not remotely overridden holds the value of its
\* most recent local configuration (the local map's), whatever remote
\* batches came before, unless a local update of that key is in flight.
C19_RevertRestoresLocal ==
    \A f \in ConfigKeys :
        (f \notin config.remote /\ ~LocalInFlight(f))
            => config.values[f] = localMap[f]

\* after a remote override of recording by true, kept over several batches
\* while the local value became false, its removal has left false
C19_Witness ==
    /\ rem.pc = "return"
    /\ upd.pc = "idle"
    /\ cfgCalls = MaxCfgCalls
    /\ "recording" \in DOMAIN rem.old
    /\ rem.old["recording"] = "true"
    /\ rem.attrs = NoAttrs
    /\ config.remote = {}
    /\ ~localMap["recording"]
    /\ ~config.values.recording
    /\ config.values.continuationStrategy = "continue"

\* C20: when updateRemoteConfig returns, attrs is the given map without the
\* changed attributes whose value failed to parse or that are unsupported;
\* its keys are exactly the remote set of the snapshot, each with its parsed
\* value in its field; a call without update leaves the snapshot alone; and
\* the publication of a batch leaves the field of a rejected attribute as it
\* was, or at its local value if the attribute had been applied before.
C20_ParseFailureIsolated ==
    /\ [](rem.pc = "return" =>
            /\ rem.attrs = Restrict(rem.given, DOMAIN rem.given
                                       \ Rejected(rem.old, rem.given))
            /\ RemoteSet(rem.attrs) = config.remote
            /\ \A k \in DOMAIN rem.attrs :
                  /\ ParseAttr(k, rem.attrs[k]).ok
                  /\ config.values[envName(k)] = ParseAttr(k, rem.attrs[k]).value
            /\ \A k \in Rejected(rem.old, rem.given) :
                  envName(k) \notin config.remote)
    /\ [][/\ (rem.pc = "idle" /\ rem'.pc = "return") => config' = config
          /\ RemotePublishes =>
               \A k \in Rejected(rem.old, rem.given) :
                   IF k \in DOMAIN rem.old
                   THEN \/ config'.values[envName(k)] = localMap[envName(k)]
                        \/ LocalInFlight(envName(k))
                   ELSE \/ envName(k) \notin DOMAIN config.values
                        \/ config'.values[envName(k)] =
                               config.values[envName(k)]]_vars

\* a batch with an unparseable recording value, an unsupported attribute and
\* a valid strategy has returned: only the strategy is applied
C20_Witness ==
    /\ rem.pc = "return"
    /\ DOMAIN rem.given = AttrKeys
    /\ rem.given["recording"] = "yes"
    /\ DOMAIN rem.attrs = {"trace_continuation_strategy"}
    /\ config.remote = {"continuationStrategy"}
    /\ config.values.continuationStrategy = "restart"
    /\ config.values.recording = localMap["recording"]

\* C21: when setLocalInstrumentationConfig publishes, the local map holds the
\* new closure for its key; if the key is in the remote set of the snapshot
\* it replaces, no value of the snapshot changes, else the field of the key
\* holds the closure's value (and the remote set is as it was).
C21_LocalShadowedByRemote ==
    [][LocalPublishes =>
          /\ localMap'[upd.key] = upd.val
          /\ config'.remote = config.remote
          /\ IF upd.key \in config.remote
             THEN config'.values = config.values
             ELSE config'.values = [config.values EXCEPT ![upd.key] = upd.val]]_vars

\* a local update of recording is about to publish over a snapshot in which
\* recording is remotely overridden by the opposite value: the closure is
\* stored, the copy keeps the remote value
C21_Witness ==
    /\ upd.pc = "cas"
    /\ upd.key = "recording"
    /\ upd.old = config.id
    /\ "recording" \in config.remote
    /\ localMap["recording"] = upd.val
    /\ config.values.recording # upd.val
    /\ upd.new.values.recording = config.values.recording

\* C22: no step changes what is reachable from the snapshot that is published
\* before the step (which a reader may hold): its values, its remote set and
\* the local map it references. newConfig := *oldConfig copies the values
\* and the two map references, so the values and the remote set of the old
\* snapshot stay as they were, and every snapshot references the one local
\* map, localMap.
HeldSnapshot(cfg, local) ==
    [values |-> cfg.values, remote |-> cfg.remote, local |-> local]
C22_PublishedSnapshotImmutable ==
    [][HeldSnapshot(config, localMap') = HeldSnapshot(config, localMap)]_vars

\* C23: the dropped-span map of a transaction never holds more than
\* maxDroppedSpanStats keys; an add that finds the map full leaves the map
\* as it was if its key is new, and adds its count and duration to the entry
\* of its key (both grow) if the key is present.
AddStep ==
    /\ lastOp'.op = "add"
    /\ created' = created
    /\ <<tdata, lastOp>>' # <<tdata, lastOp>>
C23_DroppedStatsCapped ==
    /\ [](\A d \in TD :
            Cardinality(DOMAIN tdata[d].droppedSpansStats) <= maxDroppedSpanStats)
    /\ [][(AddStep /\ Cardinality(DOMAIN DroppedOf(1)) = maxDroppedSpanStats) =>
            LET a == lastOp'.arg
                m == DroppedOf(1)
            IN IF a.key \in DOMAIN m
               THEN /\ DroppedOf(1)' =
                          [m EXCEPT ![a.key] =
                              [count |-> @.count + a.count,
                               duration |-> @.duration + a.d]]
                    /\ DroppedOf(1)'[a.key].count > m[a.key].count
                    /\ DroppedOf(1)'[a.key].duration > m[a.key].duration
               ELSE DroppedOf(1)' = m]_vars

\* the map is full, the last key that fitted has been added to again, and
\* the add of a further key has just been dropped
C23_Witness ==
    /\ 1 \in created
    /\ Cardinality(DOMAIN DroppedOf(1)) = maxDroppedSpanStats
    /\ DroppedOf(1)[DropKeyAt(maxDroppedSpanStats)].count > 1
    /\ lastOp.op = "add"
    /\ lastOp.arg.key \notin DOMAIN DroppedOf(1)

\* C24: the transaction event that End of a recording transaction sends
\* carries the Outcome the caller set if it is non-empty; else the outcome
\* derived from the context's HTTP status if one was recorded; else failure
\* if an error was captured, else success.
ExpectedOutcome(data) ==
    IF data.Outcome # "" THEN data.Outcome
    ELSE IF data.Context.httpStatus # 0 THEN ContextOutcome(data.Context)
    ELSE IF data.errorCaptured THEN "failure"
    ELSE "success"
C25_StatusOutcomeHint ==
    /\ lastOp.op = "SetHTTPStatusCode" =>
          outcome(spanContext) = (IF lastOp.arg = 0 THEN ""
                                  ELSE IF lastOp.arg < 400 THEN "success"
                                  ELSE "failure")
    /\ spanContext.http.StatusCode = 0 => outcome(spanContext) = ""
    /\ outcome(spanContext) \in {"", "success", "failure"}

\* the status 400 has just been recorded: the hint is failure
C25_Witness ==
    /\ lastOp.op = "SetHTTPStatusCode"
    /\ lastOp.arg = 400
    /\ spanContext.http.StatusCode = 400
    /\ outcome(spanContext) = "failure"

\* C26 as stated: after SetHTTPRequest on https://example.com:443/x the
\* destination is example.com, port 443, and neither the destination-service
\* name nor the resource holds the port; on port 8443 both hold it.
HasToken(s, t) == \E i \in 1..Len(s) : s[i] = t
RequestedHost(h) ==
    /\ lastOp.op = "SetHTTPRequest"
    /\ ~lastOp.arg.URL.nil
    /\ lastOp.arg.URL.Host = h
C26_DefaultPortInNeither ==
    /\ RequestedHost(<<"example.com", ":", "443">>) =>
          /\ spanContext.destination.Address = <<"example.com">>
          /\ spanContext.destination.Port = 443
          /\ ~HasToken(spanContext.destinationService.Name, "443")
          /\ ~HasToken(spanContext.destinationService.Resource, "443")
    /\ RequestedHost(<<"example.com", ":", "8443">>) =>
          /\ HasToken(spanContext.destinationService.Name, "8443")
          /\ HasToken(spanContext.destinationService.Resource, "8443")

\* C26, amended: after SetHTTPRequest on https://example.com:443/x the
\* destination is example.com, port 443, the destination-service name is
\* https://example.com, without the port, and the resource is
\* example.com:443, with it; on port 8443 the destination is example.com,
\* port 8443, and both the name and the resource hold the port. A host
\* without a port gets the scheme's default port in the resource only.
C26_DefaultPortInResourceOnly ==
    /\ RequestedHost(<<"example.com", ":", "443">>) =>
          /\ spanContext.destination.Address = <<"example.com">>
          /\ spanContext.destination.Port = 443
          /\ spanContext.destinationService.Name =
                 <<"https", "://", "example.com">>
          /\ spanContext.destinationService.Resource =
                 <<"example.com", ":", "443">>
    /\ RequestedHost(<<"example.com", ":", "8443">>) =>
          /\ spanContext.destination.Address = <<"example.com">>
          /\ spanContext.destination.Port = 8443
          /\ spanContext.destinationService.Name =
                 <<"https", "://", "example.com", ":", "8443">>
          /\ spanContext.destinationService.Resource =
                 <<"example.com", ":", "8443">>
    /\ RequestedHost(<<"example.com">>) =>
          /\ spanContext.destination.Port = 443
          /\ spanContext.destinationService.Name =
                 <<"https", "://", "example.com">>
          /\ spanContext.destinationService.Resource =
                 <<"example.com", ":", "443">>

\* the request to port 443 has just been captured: the HTTP and destination
\* sub-contexts are set, the resource holds the port
C26_Witness ==
    /\ RequestedHost(<<"example.com", ":", "443">>)
    /\ spanContext.model.HTTP
    /\ spanContext.model.Destination
    /\ spanContext.destination.Service
    /\ spanContext.destinationService.Resource = <<"example.com", ":", "443">>

\* C27: build returns nil exactly when no sub-context is populated (labels,
\* message, database, HTTP, destination, service target) since the last
\* reset, and what it returns otherwise is the populated context.
Populated(c) ==
    \/ Len(c.model.Tags) # 0
    \/ c.model.Message
    \/ c.model.Database
    \/ c.model.HTTP
    \/ c.model.Destination
    \/ c.model.Service
C27_BuildNilIffUnpopulated ==
    /\ build(spanContext).nil <=> ~Populated(spanContext)
    /\ ~build(spanContext).nil => build(spanContext).context = spanContext

\* C28: a call of SetDestinationService with an empty Name or an empty
\* Resource leaves every sub-context as it was (the record that the setter
\* was called, which is no part of what the span emits, aside).
EmittedContext(c) == [c EXCEPT !.setDestinationServiceCalled = FALSE]
C28_EmptyServiceIsNoOp ==
    [][(/\ lastOp'.op = "SetDestinationService"
        /\ (lastOp'.arg.Name = <<>> \/ lastOp'.arg.Resource = <<>>))
          => EmittedContext(spanContext') = EmittedContext(spanContext)]_vars

\* C29: the TransactionData of the pool are in the zero state: Duration -1;
\* name, type, result and outcome empty; no links; no span counted as
\* created or dropped; no error captured; no span timing, no dropped-span
\* entry; no pending compressed span; a context without labels or status.
InZeroState(data) ==
    /\ data.Duration = -1
    /\ data.Name = "" /\ data.Type = ""
    /\ data.Result = "" /\ data.Outcome = ""
    /\ data.links = <<>>
    /\ data.spansCreated = 0 /\ data.spansDropped = 0
    /\ ~data.errorCaptured
    /\ data.spanTimings = {}
    /\ DOMAIN data.droppedSpansStats = {}
    /\ data.compressedSpan.cache = NoSpan
    /\ data.Context.labels = <<>>
    /\ data.Context.httpStatus = 0
C29_PooledDataZero ==
    \A d \in TD : pool[d] > 0 => InZeroState(tdata[d])

\* the data of a recording transaction that a dropped span was accounted
\* to is in the pool, the End or Discard of its handle has returned, no
\* event was dropped and the queue is drained
C29_Witness ==
    /\ pool[1] > 0
    /\ returned[1]
    /\ call = [th \in Threads |-> NoCall]
    /\ lastOp.op = "add"
    /\ events = <<>>
    /\ stats = 0
    /\ config.values.recording

\* C30: the span ID of a root transaction is the caller's TransactionID if
\* that is valid, else the first 8 bytes of the trace ID it generated; the
\* span ID of a continued transaction is the caller's TransactionID if that
\* is valid, else the word drawn from the random source for it. The inbound
\* span ID becomes the parent ID and has no part in the span ID.
C30_SpanIDChoice ==
    \A tx \in Tx :
        LET o == startOpts[tx] IN
        /\ Root(tx) =>
              /\ traceContext[tx].Trace = GeneratedTrace(tx)
              /\ traceContext[tx].Span =
                     IF SpanValid(o.TransactionID) THEN o.TransactionID
                     ELSE traceContext[tx].Trace[1]
        /\ NonRoot(tx) =>
              /\ traceContext[tx].Trace = o.TraceContext.Trace
              /\ Len(Words(tx)) = IF SpanValid(o.TransactionID) THEN 0 ELSE 1
              /\ traceContext[tx].Span =
                     IF SpanValid(o.TransactionID) THEN o.TransactionID
                     ELSE Words(tx)[1]
              /\ SpanValid(o.TraceContext.Span) =>
                     parentID[tx] = o.TraceContext.Span

\* a trace with a valid inbound span was continued without a caller's ID:
\* the span ID is the drawn word, which differs from the inbound span ID
C30_Witness ==
    \E tx \in Tx :
        /\ NonRoot(tx)
        /\ SpanValid(startOpts[tx].TraceContext.Span)
        /\ ~SpanValid(startOpts[tx].TransactionID)
        /\ Words(tx) = <<traceContext[tx].Span>>
        /\ traceContext[tx].Span # startOpts[tx].TraceContext.Span
        /\ parentID[tx] = startOpts[tx].TraceContext.Span


\* C31: no config update is lost. Every call that has begun has either
\* published its update function once or is still in the loop, and when no
\* call is in the loop the snapshot, its remote set and the local map are
\* what the update functions of all the calls give when they are applied one
\* after another, each once, in the order of their successful
\* compare-and-swaps.
InLoop ==
    (IF upd.pc = "cas" THEN 1 ELSE 0) + (IF upd2.pc = "cas" THEN 1 ELSE 0)
        + (IF rem.pc = "cas" THEN 1 ELSE 0)
C31_NoLostUpdate ==
    /\ serial.applied + InLoop = cfgCalls
    /\ InLoop = 0 =>
          /\ config.values = serial.values
          /\ config.remote = serial.remote
          /\ localMap = serial.local

\* all the calls have returned, the tracer loop's last one by a batch that
\* removed the override, and the snapshot that stands was built while other
\* copies were referenced (its id is past the two a lone updater alternates
\* between): the recording flag holds the value of the local call that
\* published last
C31_Witness ==
    /\ InLoop = 0
    /\ rem.pc = "return"
    /\ cfgCalls = MaxCfgCalls
    /\ serial.applied = MaxCfgCalls
    /\ config.id >= 2
    /\ config.remote = {}
    /\ ~config.values.recording
    /\ ~localMap["recording"]


\* C32: the update loop is lock-free. (1) The load of a transaction start is
\* enabled whatever the updaters are doing. (2) Under contention a
\* compare-and-swap succeeds: an updater in the loop falls behind the
\* pointer only by a step that publishes another updater's copy, and an
\* updater whose compare-and-swap failed holds the current pointer
\* afterwards. (3) Every call that is in the loop returns.
Loaded(u) == IF u = rem THEN rem.loaded ELSE u.old
Behind(u) == u.pc = "cas" /\ Loaded(u) # config.id
C32_LockFree ==
    /\ [](1 \notin created =>
             ENABLED StartTransactionOptions(1, "name", "request", ZeroOpts,
                                             <<1, 1>>, TRUE))
    /\ [][/\ (~Behind(upd) /\ Behind(upd)') =>
               (config' # config /\ serial'.applied = serial.applied + 1)
          /\ (~Behind(upd2) /\ Behind(upd2)') =>
               (config' # config /\ serial'.applied = serial.applied + 1)
          /\ (~Behind(rem) /\ Behind(rem)') =>
               (config' # config /\ serial'.applied = serial.applied + 1)
          /\ (Behind(upd) /\ upd' # upd) => ~Behind(upd)'
          /\ (Behind(upd2) /\ upd2' # upd2) => ~Behind(upd2)'
          /\ (Behind(rem) /\ rem' # rem) => ~Behind(rem)']_vars
    /\ (upd.pc = "cas") ~> (upd.pc = "idle")
    /\ (upd2.pc = "cas") ~> (upd2.pc = "idle")
    /\ (rem.pc = "cas") ~> (rem.pc = "return")

\* a transaction start has loaded the snapshot that stands while a local
\* call is in the loop behind it: the call loaded before that snapshot was
\* published by the other call, the start after
C32_Witness ==
    /\ 1 \in created
    /\ startCfg[1] = config
    /\ Behind(upd)
    /\ serial.applied = 1
    /\ cfgCalls = 2


\* C33: provenance. When every call has returned, the remote set is the set
\* of keys of the attributes the latest remote call left applied; a field
\* whose key is in the remote set holds the parsed value of that attribute,
\* and a field whose key is not in it holds the value of the closure
\* registered last for it, which is the local map's and the history's.
LatestApplied == IF rem.pc = "return" THEN rem.attrs ELSE rem.old
C33_Provenance ==
    (upd.pc = "idle" /\ rem.pc \in {"idle", "return"}) =>
        /\ config.remote = RemoteSet(LatestApplied)
        /\ \A f \in ConfigKeys :
              IF f \in config.remote
              THEN \E k \in DOMAIN LatestApplied :
                      /\ envName(k) = f
                      /\ ParseAttr(k, LatestApplied[k]).ok
                      /\ config.values[f] = ParseAttr(k, LatestApplied[k]).value
              ELSE /\ config.values[f] = localMap[f]
                   /\ localMap[f] = serial.local[f]

\* every call has returned: the strategy is remotely overridden by restart
\* over the local continue, and recording, which no attribute overrides,
\* holds the false that was set locally
C33_Witness ==
    /\ upd.pc = "idle"
    /\ rem.pc = "idle"
    /\ cfgCalls = MaxCfgCalls
    /\ DOMAIN rem.old = {"trace_continuation_strategy"}
    /\ config.remote = {"continuationStrategy"}
    /\ config.values.continuationStrategy = "restart"
    /\ localMap["continuationStrategy"] = "continue"
    /\ ~localMap["recording"]
    /\ ~config.values.recording


\* C34: an attribute that the previous call left applied with a valid value
\* and that now comes with a value that fails to parse is deleted from attrs
\* by the call, which then has an update to publish; the one snapshot that
\* publishes the batch has the attribute's key out of the remote set and its
\* field at the local value (unless a local update of that key is in the
\* loop, which then sets it), together with the rest of the batch.
Unparseable(old, given) ==
    {k \in DOMAIN given \cap DOMAIN old :
        ParseAttr(k, old[k]).ok /\ ~ParseAttr(k, given[k]).ok}
C34_UnparseableReverts ==
    [][/\ (rem.pc = "idle" /\ rem'.pc # "idle") =>
              \A k \in Unparseable(rem.old, rem'.given) :
                  /\ k \notin DOMAIN rem'.attrs
                  /\ rem'.pc = "cas"
                  /\ config' = config
       /\ RemotePublishes =>
              \A k \in Unparseable(rem.old, rem.given) :
                  /\ envName(k) \notin config'.remote
                  /\ config'.remote = RemoteSet(rem.attrs)
                  /\ \/ config'.values[envName(k)] = localMap[envName(k)]
                     \/ LocalInFlight(envName(k))]_vars

\* the batch with recording "yes" has been published after recording had
\* been applied as "true" while the local value is false: recording is out
\* of attrs and of the remote set and is false, and the strategy that the
\* batch carries is in the remote set with its value
C34_Witness ==
    /\ rem.pc = "return"
    /\ upd.pc = "idle"
    /\ "recording" \in DOMAIN rem.old
    /\ rem.old["recording"] = "true"
    /\ "recording" \in DOMAIN rem.given
    /\ rem.given["recording"] = "yes"
    /\ "recording" \notin DOMAIN rem.attrs
    /\ "recording" \notin config.remote
    /\ ~localMap["recording"]
    /\ ~config.values.recording
    /\ "trace_continuation_strategy" \in DOMAIN rem.attrs
    /\ "continuationStrategy" \in config.remote
    /\ config.values.continuationStrategy = "restart"

====
